---- MODULE Spec2Model ----
(***************************************************************************)
(* MortalNet chat / matchmaking server (src/server/python/mortalnet.py).   *)
(*                                                                         *)
(* Text is modelled as tuples of one-character strings, so that cleaning,  *)
(* truncation, suffixing, trimming and lower-casing are computed the way   *)
(* the code computes them.  Time is the monotonic clock counted in ticks   *)
(* of 1/TicksPerSec second; token counts are scaled by TicksPerSec so that *)
(* fractions of a token are integers.                                      *)
(***************************************************************************)
EXTENDS Integers, Sequences, FiniteSets, TLC

(***************************************************************************)
(* Bounds of the model.                                                    *)
(***************************************************************************)
MaxConn == 3          \* connections accepted or rejected in one run
MaxTime == 1          \* last clock tick of a run
MaxCount == 3         \* cap of the message, challenge, kick and ban counters
CrowdConn == 101      \* connections of a run of the crowd specification
AdminConn == 2        \* connection attempts of a run of the ban specification
BucketConn == 1       \* connections of a run of the one-bucket specification
RateConn == 2         \* connections of a run of the rate-limit specification
TicksPerSec == 1      \* clock resolution
WireTime == 30        \* last clock tick of a run of the transport specification
WireConn == 2         \* connections of a run of the transport specification
SnapConn == 3         \* connections of a run of the dashboard specification

(***************************************************************************)
(* Program constants.                                                      *)
(***************************************************************************)
NICK_MAX == 20        \* clean[:20]
NICK_TRUNC == 17      \* base[:17]
MAX_LINE_BYTES == 1024
WRITE_TIMEOUT == 30   \* seconds

Min(a, b) == IF a < b THEN a ELSE b

(***************************************************************************)
(* Characters and strings.                                                 *)
(***************************************************************************)
Lowercase == {"a","b","c","d","e","f","g","h","i","j","k","l","m",
              "n","o","p","q","r","s","t","u","v","w","x","y","z"}
Uppercase == {"A","B","C","D","E","F","G","H","I","J","K","L","M",
              "N","O","P","Q","R","S","T","U","V","W","X","Y","Z"}
DigitChars == {"0","1","2","3","4","5","6","7","8","9"}
\* [a-zA-Z0-9_\-]
NickChars == Lowercase \cup Uppercase \cup DigitChars \cup {"_", "-"}
\* characters str.strip() removes
Whitespace == {" ", "\t", "\n", "\r"}
\* characters with ord(ch) < 0x20 that the inputs use
ControlChars == {"\t", "\n", "\r"}

Take(s, n) == SubSeq(s, 1, Min(Len(s), n))

DigitOf(d) ==
    CASE d = 0 -> "0" [] d = 1 -> "1" [] d = 2 -> "2" [] d = 3 -> "3"
      [] d = 4 -> "4" [] d = 5 -> "5" [] d = 6 -> "6" [] d = 7 -> "7"
      [] d = 8 -> "8" [] d = 9 -> "9"

\* str(suffix): the decimal digits of a positive integer
RECURSIVE Decimal(_)
Decimal(n) ==
    IF n < 10 THEN <<DigitOf(n)>>
    ELSE Decimal(n \div 10) \o <<DigitOf(n % 10)>>

LowerChar(c) ==
    CASE c = "A" -> "a" [] c = "B" -> "b" [] c = "C" -> "c" [] c = "D" -> "d"
      [] c = "E" -> "e" [] c = "F" -> "f" [] c = "G" -> "g" [] c = "H" -> "h"
      [] c = "I" -> "i" [] c = "J" -> "j" [] c = "K" -> "k" [] c = "L" -> "l"
      [] c = "M" -> "m" [] c = "N" -> "n" [] c = "O" -> "o" [] c = "P" -> "p"
      [] c = "Q" -> "q" [] c = "R" -> "r" [] c = "S" -> "s" [] c = "T" -> "t"
      [] c = "U" -> "u" [] c = "V" -> "v" [] c = "W" -> "w" [] c = "X" -> "x"
      [] c = "Y" -> "y" [] c = "Z" -> "z" [] OTHER -> c

\* str.lower()
Lower(s) == [i \in 1..Len(s) |-> LowerChar(s[i])]

\* str.strip()
RECURSIVE LStrip(_)
LStrip(s) ==
    IF s # <<>> /\ s[1] \in Whitespace THEN LStrip(Tail(s)) ELSE s
RECURSIVE RStrip(_)
RStrip(s) ==
    IF s # <<>> /\ s[Len(s)] \in Whitespace
    THEN RStrip(SubSeq(s, 1, Len(s) - 1)) ELSE s
Strip(s) == RStrip(LStrip(s))

\* _sanitize: drop every character below 0x20
Sanitize(text) == SelectSeq(text, LAMBDA ch : ch \notin ControlChars)

PLAYER == <<"P","l","a","y","e","r">>


(***************************************************************************)
(* Finite maps (Python dicts).                                             *)
(***************************************************************************)
EmptyMap == [x \in {} |-> 0]
Put(f, k, v) == [x \in (DOMAIN f) \cup {k} |-> IF x = k THEN v ELSE f[x]]
Drop(f, k) == [x \in (DOMAIN f) \ {k} |-> f[x]]

(***************************************************************************)
(* Inputs: the peers' addresses and the contents of the lines they send.   *)
(***************************************************************************)
IP1 == <<"1", ".", "1">>
IP2 == <<"1", ".", "2">>
IPs == {IP1, IP2}

NickA == <<"a">>
NickA1 == <<"a", "_", "1">>
\* contents of N lines: a name with a character to strip, and a name that
\* already carries a suffix
ReqNicks == {<<"a", "!">>, NickA1}

CHAT == <<"c","h","a","t">>
AWAY == <<"a","w","a","y">>
GAME == <<"g","a","m","e">>
QUEUE == <<"q","u","e","u","e">>
VALID_STATUSES == {CHAT, AWAY, GAME, QUEUE}

SECRET == <<"p","w">>
WRONG == <<"p","x">>
KICK == <<"k","i","c","k">>
BAN == <<"b","a","n">>
RELOAD == <<"r","e","l","o","a","d">>
MOTD == <<"m","o","t","d">>
ZAP == <<"z","a","p">>

\* contents of M lines
Texts == {<<"h", "\t">>, <<"\t">>}
\* contents of C and W lines
Targets == {<<" ", "a">>, NickA1}
\* contents of T lines
StatusInputs == {<<" ","Q","u","e","u","e">>, <<"x">>}
\* contents of A lines
Words(a, b, c) == a \o <<" ">> \o b \o <<" ">> \o c
AdminInputs ==
    {Words(SECRET, KICK, NickA), Words(SECRET, BAN, NickA),
     Words(SECRET, BAN, IP2), SECRET \o <<" ">> \o <<"R","e","l","o","a","d">>,
     Words(SECRET, MOTD, <<"m", " ">>), Words(SECRET, ZAP, <<>>),
     Words(WRONG, KICK, NickA), SECRET, WRONG}
\* prefixes of the rate-limited commands
Limited == {"M", "C", "W", "T"}
\* prefixes of lines that may be dropped before any handler runs
Prefixes == {"M", "C", "W", "T", "A", "X"}

(***************************************************************************)
(* State.                                                                  *)
(***************************************************************************)
VARIABLES
    cfg,         \* Config, fixed at construction
    next_id,     \* _client_id_counter
    clients,     \* _clients: id -> Client
    nicks,       \* _nicks: nick -> id
    reserved,    \* _reserved: nick -> [ip, expiry]
    history,     \* _history
    banned_ips,  \* _banned_ips
    motd,        \* _motd, as its lines
    metrics,     \* _metrics
    ban_disk,    \* the ban file: whether it exists, and the addresses in it
    now,         \* time.monotonic(), in ticks
    sent,        \* id -> the lines the last operation queued to that id
    ev,          \* the last operation: what was dispatched and how it ended
    wire,        \* the transports whose peer has stopped reading: the lines
                 \* they hold back and the drain tasks that wait on them
    http         \* the dashboard thread: its call of snapshot()

vars == <<cfg, next_id, clients, nicks, reserved, history, banned_ips, motd,
          metrics, ban_disk, now, sent, ev, wire, http>>

\* Client(id, ip, writer) with its TokenBucket(rate, burst)
NewClient(ip, c, t) ==
    [ip |-> ip, nick |-> <<>>, nick_confirmed |-> FALSE, status |-> CHAT,
     tokens |-> c.burst * TicksPerSec, last |-> t, strikes |-> 0,
     closed |-> FALSE]

\* list(self._clients.values()): the ids in insertion order, which is the
\* order of the id counter
RECURSIVE Ascending(_)
Ascending(S) ==
    IF S = {} THEN <<>>
    ELSE LET m == CHOOSE x \in S : \A y \in S : x <= y
         IN  <<m>> \o Ascending(S \ {m})

ClientIds(cl) == Ascending(DOMAIN cl)

(***************************************************************************)
(* Output.  An operation produces a sequence of [to, line]; a line is a    *)
(* tuple whose first element is the prefix byte.                           *)
(***************************************************************************)
Send(c, line) == <<[to |-> c, line |-> line]>>

SLine(text, arg) == <<"S", text, arg>>

\* a broadcast that does not test nick_confirmed
BroadcastToAll(cl, msg, exclude_id) ==
    LET ids == SelectSeq(ClientIds(cl), LAMBDA c : c # exclude_id)
    IN  [i \in 1..Len(ids) |-> [to |-> ids[i], line |-> msg]]

\* _broadcast(msg, exclude_id); exclude_id = 0 stands for None
Broadcast(cl, msg, exclude_id) ==
    LET ids == SelectSeq(ClientIds(cl),
                         LAMBDA c : cl[c].nick_confirmed /\ c # exclude_id)
    IN  [i \in 1..Len(ids) |-> [to |-> ids[i], line |-> msg]]

\* the lines of `out` queued to c, in order
LinesTo(out, c) ==
    LET mine == SelectSeq(out, LAMBDA e : e.to = c)
    IN  [i \in 1..Len(mine) |-> mine[i].line]

\* what the operation leaves in `sent`: for every id it wrote to, its lines
Queued(out) == [c \in {out[i].to : i \in 1..Len(out)} |-> LinesTo(out, c)]

NoOutput == EmptyMap

SentTo(c) == IF c \in DOMAIN sent THEN sent[c] ELSE <<>>

(***************************************************************************)
(* Transports.  writer.write() hands a line to the peer at once unless the *)
(* transport holds lines back because the peer has stopped reading; then   *)
(* the line joins the transport's buffer.  Every _send also creates a task *)
(* that runs _drain, which returns at once unless the transport is paused. *)
(* wire keeps, for the paused transports of sessions in the id map, the    *)
(* buffer and the creation times of the drain tasks that wait.             *)
(***************************************************************************)
NoWire == [paused |-> {}, buf |-> EmptyMap, drains |-> EmptyMap]

\* a transport that puts new lines in front of the lines it holds back
TransmitInFront(w, ids, q, t) ==
    LET live == w.paused \cap ids
        lines(s) == IF s \in DOMAIN q THEN q[s] ELSE <<>>
    IN  [paused |-> live,
         buf |-> [s \in live |-> lines(s) \o w.buf[s]],
         drains |-> [s \in live |->
                        w.drains[s] \o [i \in 1..Len(lines(s)) |-> t]]]

\* the transports after the lines q (id -> lines) were written at time t,
\* ids being the sessions of the id map: _send, lines 527-533
Transmit(w, ids, q, t) ==
    LET live == w.paused \cap ids
        lines(s) == IF s \in DOMAIN q THEN q[s] ELSE <<>>
    IN  [paused |-> live,
         buf |-> [s \in live |-> w.buf[s] \o lines(s)],
         drains |-> [s \in live |->
                        w.drains[s] \o [i \in 1..Len(lines(s)) |-> t]]]

\* the writes of one operation reach the transports
Written == wire' = Transmit(wire, DOMAIN clients, sent', now)

\* the drain tasks of session s that have not finished: those of a paused
\* transport wait; those of another were created by the last operation and
\* have not run yet
DrainTasks(s) ==
    IF s \in wire.paused THEN Len(wire.drains[s]) ELSE Len(SentTo(s))

\* _get_client_by_nick; 0 stands for None
GetClientByNick(cl, nk, nick) ==
    IF nick \in DOMAIN nk /\ nk[nick] \in DOMAIN cl THEN nk[nick] ELSE 0

(***************************************************************************)
(* Nick resolution.                                                        *)
(***************************************************************************)
Clean(requested) ==
    LET kept == Take(SelectSeq(requested, LAMBDA ch : ch \in NickChars),
                     NICK_MAX)
    IN  IF kept = <<>> THEN PLAYER ELSE kept

\* suffixes that advance only every third turn of the loop
SuffixedThrice(base, suffix) ==
    Take(base, NICK_TRUNC) \o <<"_">> \o Decimal((suffix + 2) \div 3)

Suffixed(base, suffix) == Take(base, NICK_TRUNC) \o <<"_">> \o Decimal(suffix)

\* the while loop of _resolve_nick; returns the nickname, the reservation
\* map as the loop leaves it and the number of suffixes tried
RECURSIVE ResolveLoop(_, _, _, _, _, _, _, _)
ResolveLoop(base, candidate, suffix, exclude_id, client_ip, nk, rs, t) ==
    LET next == ResolveLoop(base, Suffixed(base, suffix), suffix + 1,
                            exclude_id, client_ip, nk, rs, t)
    IN  IF candidate \in DOMAIN nk /\ nk[candidate] # exclude_id
        THEN next
        ELSE IF candidate \in DOMAIN rs
        THEN IF t < rs[candidate].expiry
             THEN IF client_ip # <<>> /\ client_ip # rs[candidate].ip
                  THEN next
                  ELSE [nick |-> candidate, reserved |-> rs,
                        tried |-> suffix - 1]
             ELSE [nick |-> candidate, reserved |-> Drop(rs, candidate),
                   tried |-> suffix - 1]
        ELSE [nick |-> candidate, reserved |-> rs, tried |-> suffix - 1]

\* a resolution that does not look at the active-nick map
ResolveNickIgnoresActive(requested, exclude_id, client_ip, nk, rs, t) ==
    ResolveLoop(Clean(requested), Clean(requested), 1, exclude_id, client_ip,
                EmptyMap, rs, t)

\* a resolution that does not except the caller's own entry
ResolveNickNoExclude(requested, exclude_id, client_ip, nk, rs, t) ==
    ResolveLoop(Clean(requested), Clean(requested), 1, 0, client_ip, nk, rs, t)

ResolveNick(requested, exclude_id, client_ip, nk, rs, t) ==
    ResolveLoop(Clean(requested), Clean(requested), 1, exclude_id, client_ip,
                nk, rs, t)


(***************************************************************************)
(* Token bucket.                                                           *)
(***************************************************************************)
\* a bucket that admits a call without taking the token
ConsumeFree(c, conf, t) ==
    LET refilled == Min(conf.burst * TicksPerSec,
                        c.tokens + (t - c.last) * conf.rate)
    IN  [ok |-> refilled >= TicksPerSec, tokens |-> refilled, last |-> t]

\* a bucket that wants more than one token to be left
ConsumeStrict(c, conf, t) ==
    LET refilled == Min(conf.burst * TicksPerSec,
                        c.tokens + (t - c.last) * conf.rate)
        ok == refilled > TicksPerSec
    IN  [ok |-> ok,
         tokens |-> IF ok THEN refilled - TicksPerSec ELSE refilled,
         last |-> t]

\* TokenBucket.consume() of client record c at time t
Consume(c, conf, t) ==
    LET refilled == Min(conf.burst * TicksPerSec,
                        c.tokens + (t - c.last) * conf.rate)
        ok == refilled >= TicksPerSec
    IN  [ok |-> ok,
         tokens |-> IF ok THEN refilled - TicksPerSec ELSE refilled,
         last |-> t]

(***************************************************************************)
(* Leave.                                                                  *)
(***************************************************************************)
\* a leave that forgets "del self._nicks[client.nick]"
OnLeaveKeepsNick(s, cl, nk, rs, conf, t) ==
    [clients |-> Drop(cl, s), nicks |-> nk, reserved |-> rs,
     out |-> IF cl[s].nick_confirmed
             THEN Broadcast(Drop(cl, s), <<"L", cl[s].nick>>, 0) ELSE <<>>]

\* a leave that reserves the nickname whatever the grace period is
OnLeaveAlwaysReserves(s, cl, nk, rs, conf, t) ==
    LET c == cl[s]
        rest == Drop(cl, s)
    IN  IF c.nick_confirmed /\ c.nick \in DOMAIN nk
        THEN [clients |-> rest,
              nicks |-> Drop(nk, c.nick),
              reserved |-> Put(rs, c.nick,
                               [ip |-> c.ip,
                                expiry |-> t + conf.nick_reserve_secs * TicksPerSec]),
              out |-> Broadcast(rest, <<"L", c.nick>>, 0)]
        ELSE [clients |-> rest, nicks |-> nk, reserved |-> rs, out |-> <<>>]

\* _on_leave(client) for a client that is in the id map
OnLeave(s, cl, nk, rs, conf, t) ==
    LET c == cl[s]
        rest == Drop(cl, s)
    IN  IF c.nick_confirmed /\ c.nick \in DOMAIN nk
        THEN [clients |-> rest,
              nicks |-> Drop(nk, c.nick),
              reserved |->
                  IF conf.nick_reserve_secs > 0
                  THEN Put(rs, c.nick,
                           [ip |-> c.ip,
                            expiry |-> t + conf.nick_reserve_secs * TicksPerSec])
                  ELSE rs,
              out |-> Broadcast(rest, <<"L", c.nick>>, 0)]
        ELSE [clients |-> rest, nicks |-> nk, reserved |-> rs, out |-> <<>>]

(***************************************************************************)
(* N: register or rename.                                                  *)
(***************************************************************************)
\* step 2 of the first registration: one J per confirmed peer
PeerLines(s, cl) ==
    LET ids == SelectSeq(ClientIds(cl),
                         LAMBDA o : o # s /\ cl[o].nick_confirmed)
    IN  [i \in 1..Len(ids) |->
            [to |-> s, line |-> <<"J", cl[ids[i]].nick, cl[ids[i]].ip>>]]

\* step 3: the history, as stored
HistoryLines(s, hist) == [i \in 1..Len(hist) |-> [to |-> s, line |-> hist[i]]]

\* step 4: the MOTD's lines, stripped, the empty ones left out
MotdLines(s, md) ==
    LET stripped == [i \in 1..Len(md) |-> Strip(md[i])]
        kept == SelectSeq(stripped, LAMBDA l : l # <<>>)
    IN  [i \in 1..Len(kept) |-> [to |-> s, line |-> SLine("", kept[i])]]

\* a burst that announces the newcomer before it answers the newcomer
FirstBurstAnnounceFirst(s, cl, hist, md) ==
    Broadcast(cl, <<"J", cl[s].nick, cl[s].ip>>, s)
    \o Send(s, <<"Y", cl[s].nick>>)
    \o PeerLines(s, cl)
    \o HistoryLines(s, hist)
    \o MotdLines(s, md)

\* steps 1 to 5 of the first registration of s, cl being the id map after
\* the nickname is installed
FirstBurst(s, cl, hist, md) ==
    Send(s, <<"Y", cl[s].nick>>)
    \o PeerLines(s, cl)
    \o HistoryLines(s, hist)
    \o MotdLines(s, md)
    \o Broadcast(cl, <<"J", cl[s].nick, cl[s].ip>>, s)

\* an N handler whose resolution starts its suffixes at the number of
\* sessions in the id map
OnNickCountsSessions(s, requested, cl, nk, rs, hist, md, t) ==
    LET r == ResolveLoop(Clean(requested), Clean(requested),
                         Cardinality(DOMAIN cl), s, cl[s].ip, nk, rs, t)
        cl2 == [cl EXCEPT ![s].nick = r.nick, ![s].nick_confirmed = TRUE]
    IN  [clients |-> cl2,
         nicks |-> Put(IF cl[s].nick_confirmed THEN Drop(nk, cl[s].nick) ELSE nk,
                       r.nick, s),
         reserved |-> IF cl[s].nick_confirmed THEN r.reserved
                      ELSE Drop(r.reserved, r.nick),
         out |-> Send(s, <<"Y", r.nick>>),
         nick |-> r.nick, path |-> "first"]

OnNick(s, requested, cl, nk, rs, hist, md, t) ==
    LET r == ResolveNick(requested, s, cl[s].ip, nk, rs, t)
        new_nick == r.nick
        old_nick == cl[s].nick
    IN  IF cl[s].nick_confirmed
        THEN IF new_nick = old_nick
             THEN [clients |-> cl, nicks |-> nk, reserved |-> r.reserved,
                   out |-> <<>>, nick |-> new_nick, path |-> "same"]
             ELSE LET cl2 == [cl EXCEPT ![s].nick = new_nick]
                  IN  [clients |-> cl2,
                       nicks |-> Put(Drop(nk, old_nick), new_nick, s),
                       reserved |-> r.reserved,
                       out |-> Send(s, <<"Y", new_nick>>)
                               \o Broadcast(cl2, <<"N", old_nick, new_nick>>, 0),
                       nick |-> new_nick, path |-> "rename"]
        ELSE LET cl2 == [cl EXCEPT ![s].nick = new_nick,
                                   ![s].nick_confirmed = TRUE]
             IN  [clients |-> cl2,
                  nicks |-> Put(nk, new_nick, s),
                  reserved |-> Drop(r.reserved, new_nick),
                  out |-> FirstBurst(s, cl2, hist, md),
                  nick |-> new_nick, path |-> "first"]

(***************************************************************************)
(* M, C, W, T.                                                             *)
(***************************************************************************)
\* a history that, when full, refuses the new line instead of evicting
RememberKeepsOldest(hist, msg, conf) ==
    IF Len(hist) >= conf.history_size THEN hist ELSE Append(hist, msg)

\* append to the history and trim its head to history_size
Remember(hist, msg, conf) ==
    LET h == Append(hist, msg)
    IN  IF Len(h) > conf.history_size THEN Tail(h) ELSE h

OnMessage(s, content, cl, hist, conf) ==
    LET text == Sanitize(content)
        msg == <<"M", cl[s].nick, text>>
    IN  IF text = <<>>
        THEN [history |-> hist, out |-> <<>>, messages |-> 0]
        ELSE [history |-> Remember(hist, msg, conf),
              out |-> Broadcast(cl, msg, 0), messages |-> 1]

OnChallenge(s, content, cl, nk) ==
    LET target_nick == Strip(content)
        target == GetClientByNick(cl, nk, target_nick)
    IN  IF target_nick = cl[s].nick
        THEN [out |-> Send(s, SLine("You cannot challenge yourself.", <<>>)),
              challenges |-> 0]
        ELSE IF target = 0
        THEN [out |-> Send(s, SLine("No such user: ", target_nick)),
              challenges |-> 0]
        ELSE [out |-> Send(target, <<"C", cl[s].nick>>), challenges |-> 1]

OnWhois(s, content, cl, nk) ==
    LET target_nick == Strip(content)
        target == GetClientByNick(cl, nk, target_nick)
    IN  IF target = 0
        THEN Send(s, SLine("No such user: ", target_nick))
        ELSE Send(s, <<"W", cl[target].nick, cl[target].ip>>)

\* a pairing that leaves both statuses at queue
TryMatchmakeKeepsQueue(j, cl) ==
    LET queued == SelectSeq(ClientIds(cl),
                            LAMBDA o : /\ o # j
                                       /\ cl[o].nick_confirmed
                                       /\ cl[o].status = QUEUE)
    IN  IF queued = <<>>
        THEN [clients |-> cl, out |-> <<>>, challenges |-> 0]
        ELSE LET o == Head(queued)
             IN  [clients |-> cl,
                  out |-> Send(j, <<"C", cl[o].nick>>)
                          \o Send(o, <<"C", cl[j].nick>>)
                          \o Broadcast(cl, <<"T", cl[j].nick, CHAT>>, 0)
                          \o Broadcast(cl, <<"T", cl[o].nick, CHAT>>, 0)
                          \o Send(j, SLine("Matchmaking: paired with ", cl[o].nick))
                          \o Send(o, SLine("Matchmaking: paired with ", cl[j].nick)),
                  challenges |-> 1]

\* a queue that never looks for a partner
TryMatchmakeNever(j, cl) == [clients |-> cl, out |-> <<>>, challenges |-> 0]

\* _try_matchmake(joiner): pair the joiner with the first queued peer
TryMatchmake(j, cl) ==
    LET queued == SelectSeq(ClientIds(cl),
                            LAMBDA o : /\ o # j
                                       /\ cl[o].nick_confirmed
                                       /\ cl[o].status = QUEUE)
    IN  IF queued = <<>>
        THEN [clients |-> cl, out |-> <<>>, challenges |-> 0]
        ELSE LET o == Head(queued)
                 cl2 == [cl EXCEPT ![j].status = CHAT]
                 cl3 == [cl2 EXCEPT ![o].status = CHAT]
             IN  [clients |-> cl3,
                  out |-> Send(j, <<"C", cl[o].nick>>)
                          \o Send(o, <<"C", cl[j].nick>>)
                          \o Broadcast(cl2, <<"T", cl[j].nick, CHAT>>, 0)
                          \o Broadcast(cl3, <<"T", cl[o].nick, CHAT>>, 0)
                          \o Send(j, SLine("Matchmaking: paired with ", cl[o].nick))
                          \o Send(o, SLine("Matchmaking: paired with ", cl[j].nick)),
                  challenges |-> 1]

\* a status handler that stores the value before it validates it
OnStatusStoresFirst(s, content, cl) ==
    LET status == Lower(Strip(content))
        cl2 == [cl EXCEPT ![s].status = status]
        m == IF status = QUEUE THEN TryMatchmake(s, cl2)
             ELSE [clients |-> cl2, out |-> <<>>, challenges |-> 0]
    IN  IF status \notin VALID_STATUSES
        THEN [clients |-> cl2, challenges |-> 0, how |-> "invalid",
              out |-> Send(s, SLine("Invalid status. Choose: away, chat, game, queue",
                                    <<>>))]
        ELSE [clients |-> m.clients, challenges |-> m.challenges,
              how |-> IF m.challenges = 1 THEN "paired" ELSE "set",
              out |-> Broadcast(cl2, <<"T", cl[s].nick, status>>, 0) \o m.out]

OnStatus(s, content, cl) ==
    LET status == Lower(Strip(content))
        cl2 == [cl EXCEPT ![s].status = status]
        m == IF status = QUEUE THEN TryMatchmake(s, cl2)
             ELSE [clients |-> cl2, out |-> <<>>, challenges |-> 0]
    IN  IF status \notin VALID_STATUSES
        THEN [clients |-> cl, challenges |-> 0, how |-> "invalid",
              out |-> Send(s, SLine("Invalid status. Choose: away, chat, game, queue",
                                    <<>>))]
        ELSE [clients |-> m.clients, challenges |-> m.challenges,
              how |-> IF m.challenges = 1 THEN "paired" ELSE "set",
              out |-> Broadcast(cl2, <<"T", cl[s].nick, status>>, 0) \o m.out]

(***************************************************************************)
(* A: admin commands.                                                      *)
(***************************************************************************)
FirstSpace(str) ==
    IF \E i \in 1..Len(str) : str[i] = " "
    THEN CHOOSE i \in 1..Len(str) :
             /\ str[i] = " "
             /\ \A k \in 1..(i - 1) : str[k] # " "
    ELSE 0

\* content.split(" ", 2)
Split2(content) ==
    LET i == FirstSpace(content)
        rest == SubSeq(content, i + 1, Len(content))
        k == FirstSpace(rest)
    IN  IF i = 0 THEN <<content>>
        ELSE IF k = 0 THEN <<SubSeq(content, 1, i - 1), rest>>
        ELSE <<SubSeq(content, 1, i - 1), SubSeq(rest, 1, k - 1),
               SubSeq(rest, k + 1, Len(rest))>>

\* _load_ban_list: the banned set after a (re)load; io_ok is whether the
\* read succeeds
LoadBanList(banned, disk, conf, io_ok) ==
    IF conf.ban_file /\ disk.exists /\ io_ok THEN disk.ips ELSE banned

\* _load_motd with no MOTD file configured
LoadMotd(conf) == conf.motd

\* a kick that tells the target but leaves its transport open
AdminKickKeepsOpen(a, target_nick, cl, nk) ==
    LET target == GetClientByNick(cl, nk, target_nick)
    IN  IF target = 0
        THEN [clients |-> cl, kicks |-> 0,
              out |-> Send(a, SLine("No such user: ", target_nick))]
        ELSE [clients |-> cl, kicks |-> 1,
              out |-> Send(target,
                           SLine("You have been kicked by an administrator.", <<>>))
                      \o Send(a, SLine("Kicked ", target_nick))]

\* _admin_kick
AdminKick(a, target_nick, cl, nk) ==
    LET target == GetClientByNick(cl, nk, target_nick)
    IN  IF target = 0
        THEN [clients |-> cl, kicks |-> 0,
              out |-> Send(a, SLine("No such user: ", target_nick))]
        ELSE [clients |-> [cl EXCEPT ![target].closed = TRUE], kicks |-> 1,
              out |-> Send(target,
                           SLine("You have been kicked by an administrator.", <<>>))
                      \o Send(a, SLine("Kicked ", target_nick))]

\* _admin_ban; io_ok is whether the append to the ban file succeeds
AdminBan(a, arg, cl, nk, banned, disk, conf, io_ok) ==
    LET target == GetClientByNick(cl, nk, arg)
        ip == IF target # 0 THEN cl[target].ip ELSE arg
        k == IF target # 0 THEN AdminKick(a, arg, cl, nk)
             ELSE [clients |-> cl, kicks |-> 0, out |-> <<>>]
    IN  [clients |-> k.clients, kicks |-> k.kicks,
         banned |-> banned \cup {ip},
         disk |-> IF conf.ban_file /\ io_ok
                  THEN [exists |-> TRUE, ips |-> disk.ips \cup {ip}]
                  ELSE disk,
         out |-> k.out \o Send(a, SLine("Banned ", ip))]

\* an admin handler that runs a kick without comparing the password
OnAdminUnchecked(s, content, cl, nk, banned, disk, md, conf, io_ok) ==
    LET parts == Split2(content)
        same == [clients |-> cl, banned |-> banned, disk |-> disk, motd |-> md,
                 kicks |-> 0, bans |-> 0, out |-> <<>>, how |-> ""]
    IN  IF conf.admin_password # <<>> /\ Len(parts) > 2 /\ Lower(parts[2]) = KICK
        THEN LET k == AdminKick(s, Strip(parts[3]), cl, nk)
             IN  [same EXCEPT !.clients = k.clients, !.kicks = k.kicks,
                              !.out = k.out, !.how = "kick"]
        ELSE [same EXCEPT !.out = Send(s, SLine("Invalid admin password.", <<>>)),
                          !.how = "denied"]

OnAdmin(s, content, cl, nk, banned, disk, md, conf, io_ok) ==
    LET parts == Split2(content)
        password == parts[1]
        cmd == Lower(parts[2])
        args == IF Len(parts) > 2 THEN Strip(parts[3]) ELSE <<>>
        same == [clients |-> cl, banned |-> banned, disk |-> disk, motd |-> md,
                 kicks |-> 0, bans |-> 0, out |-> <<>>, how |-> ""]
        reply(text, how) == [same EXCEPT !.out = Send(s, SLine(text, <<>>)),
                                         !.how = how]
    IN  IF conf.admin_password = <<>>
        THEN reply("Admin commands are disabled on this server.", "disabled")
        ELSE IF Len(parts) < 2
        THEN reply("Usage: A<password> <kick|ban|reload|motd> [args]", "usage")
        ELSE IF password # conf.admin_password
        THEN reply("Invalid admin password.", "denied")
        ELSE IF cmd = KICK
        THEN LET k == AdminKick(s, args, cl, nk)
             IN  [same EXCEPT !.clients = k.clients, !.kicks = k.kicks,
                              !.out = k.out, !.how = "kick"]
        ELSE IF cmd = BAN
        THEN LET b == AdminBan(s, args, cl, nk, banned, disk, conf, io_ok)
             IN  [same EXCEPT !.clients = b.clients, !.kicks = b.kicks,
                              !.banned = b.banned, !.disk = b.disk,
                              !.bans = 1, !.out = b.out, !.how = "ban"]
        ELSE IF cmd = RELOAD
        THEN [same EXCEPT !.banned = LoadBanList(banned, disk, conf, io_ok),
                          !.motd = LoadMotd(conf),
                          !.out = Send(s, SLine("Reloaded ban list and MOTD.", <<>>)),
                          !.how = "reload"]
        ELSE IF cmd = MOTD
        THEN [same EXCEPT !.motd = IF args = <<>> THEN <<>> ELSE <<args>>,
                          !.out = Send(s, SLine("MOTD updated.", <<>>)),
                          !.how = "motd"]
        ELSE [same EXCEPT !.out = Send(s, SLine("Unknown command: ", cmd)),
                          !.how = "unknown"]

(***************************************************************************)
(* The record of the last operation.                                       *)
(***************************************************************************)
\* op: the operation; cid: the session; how: the path taken; arg: the
\* content of an N or A line, the prefix of a dropped line, the address of
\* a connection; for an N line, nick:
\* the nickname resolution returned, and again: the same N line from the
\* same session was the operation before this one
Event(op, cid, arg, nick, how) ==
    [op |-> op, cid |-> cid, arg |-> arg, nick |-> nick, how |-> how,
     again |-> op = "N" /\ ev.op = op /\ ev.cid = cid /\ ev.arg = arg]

NoEvent ==
    [op |-> "init", cid |-> 0, arg |-> <<>>, nick |-> <<>>, how |-> "",
     again |-> FALSE]

\* the dashboard thread between two requests.  phase: idle, build, done or
\* failed; used: the size of the id map when the iterator was made; pos:
\* the id the iterator visited last; players, metrics: the data built
NoRequest == [phase |-> "idle", used |-> 0, pos |-> 0, players |-> <<>>,
              metrics |-> <<>>]

(***************************************************************************)
(* Construction.                                                           *)
(***************************************************************************)
MotdText == << <<" ", "h", "i">>, <<" ">>, <<"y", "o", " ">> >>

\* MortalNetServer.__init__ with configuration conf
Start(conf) ==
    /\ cfg = conf
    /\ next_id = 0
    /\ clients = EmptyMap
    /\ nicks = EmptyMap
    /\ reserved = EmptyMap
    /\ history = <<>>
    /\ banned_ips = {}
    /\ motd = LoadMotd(conf)
    /\ metrics = [connections_total |-> 0, messages_total |-> 0,
                  challenges_total |-> 0, kicks_total |-> 0, bans_total |-> 0]
    /\ ban_disk = [exists |-> FALSE, ips |-> {}]
    /\ now = 0
    /\ sent = NoOutput
    /\ ev = NoEvent
    /\ wire = NoWire
    /\ http = NoRequest

\* the counters the model caps
Capped(m) ==
    /\ m.messages_total <= MaxCount
    /\ m.challenges_total <= MaxCount
    /\ m.kicks_total <= MaxCount
    /\ m.bans_total <= MaxCount

(***************************************************************************)
(* Accepting connections: _handle_client up to the read loop.              *)
(***************************************************************************)
\* a ban check that comes after the connection was counted
ConnectBannedCounts(ip, cap) ==
    /\ next_id < cap
    /\ ip \in banned_ips
    /\ next_id' = next_id + 1
    /\ metrics' = [metrics EXCEPT !.connections_total = @ + 1]
    /\ sent' = Queued(Send(next_id + 1,
                           SLine("You are banned from this server.", <<>>)))
    /\ ev' = Event("connect", next_id + 1, ip, <<>>, "banned")
    /\ Written
    /\ UNCHANGED http
    /\ UNCHANGED <<cfg, clients, nicks, reserved, history, banned_ips, motd,
                   ban_disk, now>>

ConnectBanned(ip, cap) ==
    /\ next_id < cap
    /\ ip \in banned_ips
    /\ next_id' = next_id + 1
    /\ sent' = Queued(Send(next_id + 1,
                           SLine("You are banned from this server.", <<>>)))
    /\ ev' = Event("connect", next_id + 1, ip, <<>>, "banned")
    /\ Written
    /\ UNCHANGED http
    /\ UNCHANGED <<cfg, clients, nicks, reserved, history, banned_ips, motd,
                   metrics, ban_disk, now>>

\* a full server that takes the connection all the same
ConnectFullAdmits(ip, cap) ==
    /\ next_id < cap
    /\ ip \notin banned_ips
    /\ Cardinality(DOMAIN clients) >= cfg.max_clients
    /\ next_id' = next_id + 1
    /\ metrics' = [metrics EXCEPT !.connections_total = @ + 1]
    /\ clients' = Put(clients, next_id + 1, NewClient(ip, cfg, now))
    /\ sent' = NoOutput
    /\ ev' = Event("connect", next_id + 1, ip, <<>>, "full")
    /\ Written
    /\ UNCHANGED http
    /\ UNCHANGED <<cfg, nicks, reserved, history, banned_ips, motd, ban_disk,
                   now>>

ConnectFull(ip, cap) ==
    /\ next_id < cap
    /\ ip \notin banned_ips
    /\ Cardinality(DOMAIN clients) >= cfg.max_clients
    /\ next_id' = next_id + 1
    /\ sent' = Queued(Send(next_id + 1,
                           SLine("Server is full. Try again later.", <<>>)))
    /\ ev' = Event("connect", next_id + 1, ip, <<>>, "full")
    /\ Written
    /\ UNCHANGED http
    /\ UNCHANGED <<cfg, clients, nicks, reserved, history, banned_ips, motd,
                   metrics, ban_disk, now>>

ConnectAccept(ip, cap) ==
    /\ next_id < cap
    /\ ip \notin banned_ips
    /\ Cardinality(DOMAIN clients) < cfg.max_clients
    /\ next_id' = next_id + 1
    /\ metrics' = [metrics EXCEPT !.connections_total = @ + 1]
    /\ clients' = Put(clients, next_id + 1, NewClient(ip, cfg, now))
    /\ sent' = NoOutput
    /\ ev' = Event("connect", next_id + 1, ip, <<>>, "accepted")
    /\ Written
    /\ UNCHANGED http
    /\ UNCHANGED <<cfg, nicks, reserved, history, banned_ips, motd, ban_disk,
                   now>>

(***************************************************************************)
(* The read loop: one action per kind of line.                             *)
(***************************************************************************)
\* a read loop without the gate
GateOpen(c, prefix) == FALSE

\* "if not client.nick_confirmed and prefix not in ("N", "L"): continue"
Gate(c, prefix) == ~c.nick_confirmed /\ prefix \notin {"N", "L"}

\* an accepted command that leaves the strikes as they are
ChargedKeepsStrikes(s) ==
    LET b == Consume(clients[s], cfg, now)
    IN  [clients EXCEPT ![s].tokens = b.tokens, ![s].last = b.last]

\* the client after bucket.consume() succeeded: strikes = 0
Charged(s) ==
    LET b == Consume(clients[s], cfg, now)
    IN  [clients EXCEPT ![s].tokens = b.tokens, ![s].last = b.last,
                        ![s].strikes = 0]

\* a line of prefix M, C, W or T reaches its handler
Admitted(s, prefix) ==
    /\ s \in DOMAIN clients
    /\ ~Gate(clients[s], prefix)
    /\ Consume(clients[s], cfg, now).ok

\* a line that is dropped before any handler: gated, or of unknown prefix
Dropped(s, prefix) ==
    /\ s \in DOMAIN clients
    /\ Gate(clients[s], prefix) \/ prefix = "X"
    /\ sent' = NoOutput
    /\ ev' = Event("drop", s, <<prefix>>, <<>>,
                   IF Gate(clients[s], prefix) THEN "gated" ELSE "unknown")
    /\ Written
    /\ UNCHANGED http
    /\ UNCHANGED <<cfg, next_id, clients, nicks, reserved, history, banned_ips,
                   motd, metrics, ban_disk, now>>

\* a line of prefix M, C, W or T that the bucket rejects: a strike, and at
\* the strikes limit the flood notice, the end of the read loop and _on_leave
RateReject(s, prefix) ==
    /\ s \in DOMAIN clients
    /\ prefix \in {"M", "C", "W", "T"}
    /\ ~Gate(clients[s], prefix)
    /\ LET b == Consume(clients[s], cfg, now)
           struck == [clients EXCEPT ![s].tokens = b.tokens, ![s].last = b.last,
                                     ![s].strikes = @ + 1]
           r == OnLeave(s, struck, nicks, reserved, cfg, now)
       IN  /\ ~b.ok
           /\ IF struck[s].strikes >= cfg.strikes
              THEN /\ clients' = r.clients
                   /\ nicks' = r.nicks
                   /\ reserved' = r.reserved
                   /\ sent' = Queued(
                          Send(s, SLine("You have been disconnected for flooding.",
                                        <<>>)) \o r.out)
                   /\ ev' = Event(prefix, s, <<>>, <<>>, "flood")
              ELSE /\ clients' = struck
                   /\ sent' = NoOutput
                   /\ ev' = Event(prefix, s, <<>>, <<>>, "strike")
                   /\ UNCHANGED <<nicks, reserved>>
    /\ Written
    /\ UNCHANGED http
    /\ UNCHANGED <<cfg, next_id, history, banned_ips, motd, metrics, ban_disk,
                   now>>

\* N<requested>
Nick(s, requested) ==
    /\ s \in DOMAIN clients
    /\ LET r == OnNick(s, requested, clients, nicks, reserved, history, motd, now)
       IN  /\ clients' = r.clients
           /\ nicks' = r.nicks
           /\ reserved' = r.reserved
           /\ sent' = Queued(r.out)
           /\ ev' = Event("N", s, requested, r.nick, r.path)
    /\ Written
    /\ UNCHANGED http
    /\ UNCHANGED <<cfg, next_id, history, banned_ips, motd, metrics, ban_disk,
                   now>>

\* M<text>
Message(s, text) ==
    /\ Admitted(s, "M")
    /\ LET r == OnMessage(s, text, Charged(s), history, cfg)
       IN  /\ history' = r.history
           /\ metrics' = [metrics EXCEPT !.messages_total = @ + r.messages]
           /\ sent' = Queued(r.out)
           /\ ev' = Event("M", s, <<>>, <<>>,
                          IF r.messages = 1 THEN "said" ELSE "empty")
    /\ clients' = Charged(s)
    /\ Capped(metrics')
    /\ Written
    /\ UNCHANGED http
    /\ UNCHANGED <<cfg, next_id, nicks, reserved, banned_ips, motd, ban_disk,
                   now>>

\* C<target>
Challenge(s, target) ==
    /\ Admitted(s, "C")
    /\ LET r == OnChallenge(s, target, Charged(s), nicks)
       IN  /\ metrics' = [metrics EXCEPT !.challenges_total = @ + r.challenges]
           /\ sent' = Queued(r.out)
           /\ ev' = Event("C", s, <<>>, <<>>,
                          IF r.challenges = 1 THEN "sent" ELSE "refused")
    /\ clients' = Charged(s)
    /\ Capped(metrics')
    /\ Written
    /\ UNCHANGED http
    /\ UNCHANGED <<cfg, next_id, nicks, reserved, history, banned_ips, motd,
                   ban_disk, now>>

\* W<target>
Whois(s, target) ==
    /\ Admitted(s, "W")
    /\ clients' = Charged(s)
    /\ sent' = Queued(OnWhois(s, target, Charged(s), nicks))
    /\ ev' = Event("W", s, <<>>, <<>>, "")
    /\ Written
    /\ UNCHANGED http
    /\ UNCHANGED <<cfg, next_id, nicks, reserved, history, banned_ips, motd,
                   metrics, ban_disk, now>>

\* T<status>
Status(s, status) ==
    /\ Admitted(s, "T")
    /\ LET r == OnStatus(s, status, Charged(s))
       IN  /\ clients' = r.clients
           /\ metrics' = [metrics EXCEPT !.challenges_total = @ + r.challenges]
           /\ sent' = Queued(r.out)
           /\ ev' = Event("T", s, status, <<>>, r.how)
    /\ Capped(metrics')
    /\ Written
    /\ UNCHANGED http
    /\ UNCHANGED <<cfg, next_id, nicks, reserved, history, banned_ips, motd,
                   ban_disk, now>>

\* A<password> <cmd> [args]
Admin(s, content, io_ok) ==
    /\ s \in DOMAIN clients
    /\ ~Gate(clients[s], "A")
    /\ LET r == OnAdmin(s, content, clients, nicks, banned_ips, ban_disk, motd,
                        cfg, io_ok)
       IN  /\ clients' = r.clients
           /\ banned_ips' = r.banned
           /\ ban_disk' = r.disk
           /\ motd' = r.motd
           /\ metrics' = [metrics EXCEPT !.kicks_total = @ + r.kicks,
                                         !.bans_total = @ + r.bans]
           /\ sent' = Queued(r.out)
           /\ ev' = Event("A", s, content, <<>>, r.how)
    /\ Capped(metrics')
    /\ Written
    /\ UNCHANGED http
    /\ UNCHANGED <<cfg, next_id, nicks, reserved, history, now>>

\* the read loop returns and _on_leave runs: L, EOF, idle timeout, an
\* oversized line, a transport error
Leave(s, why) ==
    /\ s \in DOMAIN clients
    /\ LET r == OnLeave(s, clients, nicks, reserved, cfg, now)
       IN  /\ clients' = r.clients
           /\ nicks' = r.nicks
           /\ reserved' = r.reserved
           /\ sent' = Queued(r.out)
    /\ ev' = Event(why, s, <<>>, <<>>, "left")
    /\ Written
    /\ UNCHANGED http
    /\ UNCHANGED <<cfg, next_id, history, banned_ips, motd, metrics, ban_disk,
                   now>>

\* SIGHUP: _on_sighup
Sighup(io_ok) ==
    /\ banned_ips' = LoadBanList(banned_ips, ban_disk, cfg, io_ok)
    /\ motd' = LoadMotd(cfg)
    /\ sent' = NoOutput
    /\ ev' = Event("sighup", 0, <<>>, <<>>, "")
    /\ Written
    /\ UNCHANGED http
    /\ UNCHANGED <<cfg, next_id, clients, nicks, reserved, history, metrics,
                   ban_disk, now>>

\* the monotonic clock advances
Tick(limit) ==
    /\ now < limit
    /\ now' = now + 1
    /\ sent' = NoOutput
    /\ ev' = Event("tick", 0, <<>>, <<>>, "")
    /\ Written
    /\ UNCHANGED http
    /\ UNCHANGED <<cfg, next_id, clients, nicks, reserved, history, banned_ips,
                   motd, metrics, ban_disk>>

(***************************************************************************)
(* Peers that stop reading, and the drain tasks.                           *)
(***************************************************************************)
\* the peer of s stops reading and the transport of s pauses writing
PeerStalls(s) ==
    /\ s \in DOMAIN clients
    /\ s \notin wire.paused
    /\ sent' = NoOutput
    /\ wire' = [paused |-> (wire.paused \cap DOMAIN clients) \cup {s},
                buf |-> [o \in (wire.paused \cap DOMAIN clients) \cup {s} |->
                            IF o = s THEN <<>> ELSE wire.buf[o]],
                drains |-> [o \in (wire.paused \cap DOMAIN clients) \cup {s} |->
                               IF o = s THEN <<>> ELSE wire.drains[o]]]
    /\ ev' = Event("stall", s, <<>>, <<>>, "")
    /\ UNCHANGED <<cfg, next_id, clients, nicks, reserved, history, banned_ips,
                   motd, metrics, ban_disk, now, http>>

\* the peer of s reads again: the transport hands over what it held back,
\* oldest line first, and the drain tasks that waited return
PeerResumes(s) ==
    /\ s \in DOMAIN clients
    /\ s \in wire.paused
    /\ sent' = NoOutput
    /\ wire' = [paused |-> (wire.paused \cap DOMAIN clients) \ {s},
                buf |-> [o \in (wire.paused \cap DOMAIN clients) \ {s} |->
                            wire.buf[o]],
                drains |-> [o \in (wire.paused \cap DOMAIN clients) \ {s} |->
                               wire.drains[o]]]
    /\ ev' = Event("resume", s, wire.buf[s], <<>>, "")
    /\ UNCHANGED <<cfg, next_id, clients, nicks, reserved, history, banned_ips,
                   motd, metrics, ban_disk, now, http>>

\* _drain: wait_for(writer.drain(), WRITE_TIMEOUT) of the oldest waiting
\* task of s times out; "except Exception: pass"
DrainTimeout(s) ==
    /\ s \in DOMAIN clients
    /\ s \in wire.paused
    /\ wire.drains[s] # <<>>
    /\ now >= Head(wire.drains[s]) + WRITE_TIMEOUT * TicksPerSec
    /\ sent' = NoOutput
    /\ wire' = [wire EXCEPT !.drains[s] = Tail(@)]
    /\ ev' = Event("drain", s, <<>>, <<>>, "timeout")
    /\ UNCHANGED <<cfg, next_id, clients, nicks, reserved, history, banned_ips,
                   motd, metrics, ban_disk, now, http>>

\* the write deadline goes by
Sleep(limit) ==
    /\ now + WRITE_TIMEOUT * TicksPerSec <= limit
    /\ now' = now + WRITE_TIMEOUT * TicksPerSec
    /\ sent' = NoOutput
    /\ Written
    /\ ev' = Event("tick", 0, <<>>, <<>>, "")
    /\ UNCHANGED <<cfg, next_id, clients, nicks, reserved, history, banned_ips,
                   motd, metrics, ban_disk, http>>

(***************************************************************************)
(* The dashboard thread.  snapshot() runs _update_snapshot() in the HTTP   *)
(* thread while the event loop thread runs the handlers: the list          *)
(* comprehension over self._clients.values() takes one session per step,   *)
(* and whole handlers may run between two steps.  The dict iterator        *)
(* raises RuntimeError when the size of the dict differs from the size at  *)
(* its creation, and otherwise goes on to the next entry in insertion      *)
(* order, which is the order of the ids.                                   *)
(***************************************************************************)
\* the entry of the snapshot for client record c
Player(c) == [nick |-> c.nick, ip |-> c.ip, status |-> c.status]

\* the confirmed sessions of the id map cl
Confirmed(cl) == {s \in DOMAIN cl : cl[s].nick_confirmed}

\* snapshot() is called: the iterator over self._clients.values() is made
SnapStart ==
    /\ http.phase = "idle"
    /\ http' = [phase |-> "build", used |-> Cardinality(DOMAIN clients),
                pos |-> 0, players |-> <<>>, metrics |-> <<>>]
    /\ UNCHANGED <<cfg, next_id, clients, nicks, reserved, history, banned_ips,
                   motd, metrics, ban_disk, now, sent, ev, wire>>

\* one turn of the list comprehension of _update_snapshot, and after the
\* last one the rest of snapshot(): data is made, stored and copied out
SnapNext ==
    /\ http.phase = "build"
    /\ LET rest == {s \in DOMAIN clients : s > http.pos}
           c == CHOOSE s \in rest : \A o \in rest : s <= o
       IN  http' =
               IF Cardinality(DOMAIN clients) # http.used
               THEN [http EXCEPT !.phase = "failed"]
               ELSE IF rest = {}
               THEN [http EXCEPT !.phase = "done", !.metrics = metrics]
               ELSE [http EXCEPT
                        !.pos = c,
                        !.players = IF clients[c].nick_confirmed
                                    THEN Append(@, Player(clients[c]))
                                    ELSE @]
    /\ UNCHANGED <<cfg, next_id, clients, nicks, reserved, history, banned_ips,
                   motd, metrics, ban_disk, now, sent, ev, wire>>

(***************************************************************************)
(* Dashboard: one snapshot() request of the HTTP thread against sessions   *)
(* that connect, register, rename, change status and leave, on a server    *)
(* that admits one session at a time.                                      *)
(***************************************************************************)
SnapConfig ==
    [max_clients |-> 1, rate |-> 1, burst |-> 2, strikes |-> 3,
     history_size |-> 0, nick_reserve_secs |-> 0, admin_password |-> <<>>,
     motd |-> <<>>, ban_file |-> FALSE]

InitSnap == Start(SnapConfig)

NextSnap ==
    \/ ConnectAccept(IP1, SnapConn)
    \/ \E s \in DOMAIN clients, x \in ReqNicks : Nick(s, x)
    \/ \E s \in DOMAIN clients : Status(s, AWAY)
    \/ \E s \in DOMAIN clients : Leave(s, "eof")
    \/ SnapStart
    \/ SnapNext

SpecSnap == InitSnap /\ [][NextSnap]_vars

(***************************************************************************)
(* Nicknames and reservations: the operations that write the id map, the   *)
(* nick map and the reservation map.  M, C, W, T and A write none of the   *)
(* three except by ending the read loop, which is RateReject and Leave.    *)
(***************************************************************************)
NickConfig ==
    [max_clients |-> 2, rate |-> 1, burst |-> 0, strikes |-> 1,
     history_size |-> 0, nick_reserve_secs |-> 1, admin_password |-> <<>>,
     motd |-> <<>>, ban_file |-> FALSE]

InitNick == Start(NickConfig)

NextNick ==
    \/ \E ip \in IPs : ConnectFull(ip, MaxConn)
    \/ \E ip \in IPs : ConnectAccept(ip, MaxConn)
    \/ \E s \in DOMAIN clients : RateReject(s, "M")
    \/ \E s \in DOMAIN clients, x \in ReqNicks : Nick(s, x)
    \/ \E s \in DOMAIN clients : Leave(s, "eof")
    \/ Tick(MaxTime)

SpecNick == InitNick /\ [][NextNick]_vars

(***************************************************************************)
(* Chat: every kind of line, with the clock standing still, reservations   *)
(* switched off and no admin password configured.                          *)
(***************************************************************************)
ChatConfig ==
    [max_clients |-> 3, rate |-> 1, burst |-> 1, strikes |-> 1,
     history_size |-> 2, nick_reserve_secs |-> 0, admin_password |-> <<>>,
     motd |-> MotdText, ban_file |-> FALSE]

Init == Start(ChatConfig)

Next ==
    \/ ConnectAccept(IP1, MaxConn)
    \/ \E s \in DOMAIN clients, p \in Prefixes : Dropped(s, p)
    \/ \E s \in DOMAIN clients, p \in {"M", "T"} : RateReject(s, p)
    \/ \E s \in DOMAIN clients : Nick(s, <<"a", "!">>)
    \/ \E s \in DOMAIN clients, x \in Texts : Message(s, x)
    \/ \E s \in DOMAIN clients : Challenge(s, <<" ", "a">>)
    \/ \E s \in DOMAIN clients : Whois(s, <<" ", "a">>)
    \/ \E s \in DOMAIN clients, x \in StatusInputs : Status(s, x)
    \/ \E s \in DOMAIN clients : Admin(s, Words(SECRET, KICK, NickA), TRUE)
    \/ \E s \in DOMAIN clients : Leave(s, "L")

Spec == Init /\ [][Next]_vars

(***************************************************************************)
(* A crowd: the default configuration, and one peer after another asking   *)
(* for the same 18-character name while the first holder's reservation     *)
(* stands.                                                                 *)
(***************************************************************************)
DefaultConfig ==
    [max_clients |-> 100, rate |-> 5, burst |-> 10, strikes |-> 3,
     history_size |-> 20, nick_reserve_secs |-> 60, admin_password |-> <<>>,
     motd |-> <<>>, ban_file |-> FALSE]

LongNick == [i \in 1..(NICK_TRUNC + 1) |-> "b"]

InitCrowd == Start(DefaultConfig)

NextCrowd ==
    \/ /\ \A c \in DOMAIN clients : clients[c].nick_confirmed
       /\ ConnectAccept(IF next_id = 0 THEN IP1 ELSE IP2, CrowdConn)
    \/ \E s \in DOMAIN clients :
           ~clients[s].nick_confirmed /\ Nick(s, LongNick)
    \/ 1 \in DOMAIN clients /\ clients[1].nick_confirmed /\ Leave(1, "eof")

SpecCrowd == InitCrowd /\ [][NextCrowd]_vars

(***************************************************************************)
(* Rate limiting: the default bucket (burst 10, 5 tokens a second) and the *)
(* default strikes limit, two sessions, commands of the four limited       *)
(* prefixes whose handlers change nothing but the bucket, and the clock.   *)
(***************************************************************************)
InitRate == Start(DefaultConfig)

NextRate ==
    \/ ConnectAccept(IP1, RateConn)
    \/ \E s \in DOMAIN clients : Nick(s, <<"a", "!">>)
    \/ \E s \in DOMAIN clients : Message(s, <<"\t">>)
    \/ \E s \in DOMAIN clients : Challenge(s, <<"x">>)
    \/ \E s \in DOMAIN clients : Whois(s, <<"x">>)
    \/ \E s \in DOMAIN clients : Status(s, <<"x">>)
    \/ \E s \in DOMAIN clients, p \in Limited : RateReject(s, p)
    \/ \E s \in DOMAIN clients : Admin(s, Words(SECRET, KICK, NickA), TRUE)
    \/ Tick(MaxTime)

SpecRate == InitRate /\ [][NextRate]_vars

(***************************************************************************)
(* One bucket: a single connection whose only rate-limited lines are M     *)
(* lines with a text, so that messages_total counts the calls of consume() *)
(* that were admitted; burst 1, one token a second, and the clock.         *)
(***************************************************************************)
BucketConfig ==
    [max_clients |-> 1, rate |-> 1, burst |-> 1, strikes |-> 3,
     history_size |-> 1, nick_reserve_secs |-> 0, admin_password |-> <<>>,
     motd |-> <<>>, ban_file |-> FALSE]

InitBucket == Start(BucketConfig)

NextBucket ==
    \/ \E ip \in IPs : ConnectAccept(ip, BucketConn)
    \/ \E s \in DOMAIN clients, x \in ReqNicks : Nick(s, x)
    \/ \E s \in DOMAIN clients : Message(s, <<"h", "\t">>)
    \/ \E s \in DOMAIN clients : RateReject(s, "M")
    \/ Tick(MaxTime)

SpecBucket == InitBucket /\ [][NextBucket]_vars

(***************************************************************************)
(* Leaving: every way a read loop ends, with the grace period positive or  *)
(* zero.                                                                   *)
(***************************************************************************)
GraceConfig == [NickConfig EXCEPT !.max_clients = 3]

NoGraceConfig == [GraceConfig EXCEPT !.nick_reserve_secs = 0]

LeaveReasons == {"eof", "L", "timeout", "oversize", "error"}

InitLeave == Start(GraceConfig) \/ Start(NoGraceConfig)

NextLeave ==
    \/ \E ip \in IPs : ConnectAccept(ip, MaxConn)
    \/ \E s \in DOMAIN clients : Nick(s, <<"a", "!">>)
    \/ \E s \in DOMAIN clients : RateReject(s, "M")
    \/ \E s \in DOMAIN clients, why \in LeaveReasons : Leave(s, why)
    \/ Tick(MaxTime)

SpecLeave == InitLeave /\ [][NextLeave]_vars

(***************************************************************************)
(* Bans: a password and a ban file are configured; connections from two    *)
(* addresses, bans by nickname and by address, reloads by command and by   *)
(* SIGHUP, appends and reads of the ban file that succeed or fail.         *)
(***************************************************************************)
AdminConfig ==
    [max_clients |-> 3, rate |-> 1, burst |-> 0, strikes |-> 1,
     history_size |-> 0, nick_reserve_secs |-> 0, admin_password |-> SECRET,
     motd |-> <<>>, ban_file |-> TRUE]

BanInputs ==
    {Words(SECRET, BAN, NickA), Words(SECRET, BAN, IP2),
     SECRET \o <<" ">> \o <<"R","e","l","o","a","d">>}

InitAdmin == Start(AdminConfig)

NextAdmin ==
    \/ \E ip \in IPs : ConnectBanned(ip, AdminConn)
    \/ \E ip \in IPs : ConnectAccept(ip, AdminConn)
    \/ \E s \in DOMAIN clients : Nick(s, <<"a", "!">>)
    \/ \E s \in DOMAIN clients, x \in BanInputs, ok \in BOOLEAN : Admin(s, x, ok)
    \/ \E ok \in BOOLEAN : Sighup(ok)
    \/ \E s \in DOMAIN clients : Leave(s, "eof")

SpecAdmin == InitAdmin /\ [][NextAdmin]_vars

(***************************************************************************)
(* Kicks.  A kicked session's transport is closed: its read loop sees the  *)
(* end of the stream once the lines it had already sent are used up, which *)
(* the event loop delivers; that is the fairness of SpecKick.              *)
(***************************************************************************)
KickInputs == {Words(SECRET, KICK, NickA), Words(SECRET, BAN, NickA)}

\* the read loop of a session whose transport was closed reaches the end of
\* the stream
Hangup(s) ==
    /\ s \in DOMAIN clients
    /\ clients[s].closed
    /\ Leave(s, "eof")

NextKick ==
    \/ ConnectAccept(IP1, MaxConn)
    \/ \E s \in DOMAIN clients : Nick(s, <<"a", "!">>)
    \/ \E s \in DOMAIN clients, x \in KickInputs : Admin(s, x, TRUE)
    \/ \E s \in DOMAIN clients : Leave(s, "eof")

SpecKick ==
    /\ InitAdmin
    /\ [][NextKick]_vars
    /\ WF_vars(\E s \in DOMAIN clients : Hangup(s))

(***************************************************************************)
(* Refused admin lines: with no password configured, or with one and lines *)
(* that carry another.                                                     *)
(***************************************************************************)
NoAdminConfig == [AdminConfig EXCEPT !.admin_password = <<>>]

DeniedInputs == {Words(WRONG, KICK, NickA), WRONG, Words(SECRET, KICK, NickA)}

InitDenied == Start(AdminConfig) \/ Start(NoAdminConfig)

NextDenied ==
    \/ ConnectAccept(IP1, MaxConn)
    \/ \E s \in DOMAIN clients : Nick(s, <<"a", "!">>)
    \/ \E s \in DOMAIN clients, x \in DeniedInputs : Admin(s, x, TRUE)
    \/ \E s \in DOMAIN clients : Leave(s, "eof")

SpecDenied == InitDenied /\ [][NextDenied]_vars

(***************************************************************************)
(* Line lengths.  A raw line is its bytes before the line end, which hold  *)
(* no CR or LF, then some CRs, then the LF; rstrip(b"\r\n") gives back the *)
(* bytes before the line end.                                              *)
(***************************************************************************)
\* limit= of asyncio.start_server
READER_LIMIT == MAX_LINE_BYTES * 2

RawLine(body, crs) == [body |-> body, crs |-> crs]

\* len(raw)
RawLen(raw) == Len(raw.body) + raw.crs + 1

\* raw.rstrip(b"\r\n")
RStripCRLF(raw) == raw.body

\* "if not line: continue"
Blank(s) ==
    /\ s \in DOMAIN clients
    /\ sent' = NoOutput
    /\ ev' = Event("blank", s, <<>>, <<>>, "")
    /\ Written
    /\ UNCHANGED http
    /\ UNCHANGED <<cfg, next_id, clients, nicks, reserved, history, banned_ips,
                   motd, metrics, ban_disk, now>>

\* the read loop from the gate on, for a line that is not empty
Dispatch(s, line) ==
    LET prefix == line[1]
        content == Tail(line)
    IN  IF Gate(clients[s], prefix)
        THEN Dropped(s, prefix)
        ELSE IF prefix \in Limited /\ ~Consume(clients[s], cfg, now).ok
        THEN RateReject(s, prefix)
        ELSE CASE prefix = "N" -> Nick(s, content)
               [] prefix = "M" -> Message(s, content)
               [] prefix = "C" -> Challenge(s, content)
               [] prefix = "W" -> Whois(s, content)
               [] prefix = "T" -> Status(s, content)
               [] prefix = "A" -> \E io_ok \in BOOLEAN : Admin(s, content, io_ok)
               [] prefix = "L" -> Leave(s, "L")
               [] OTHER -> Dropped(s, "X")

\* a read loop that lets a line of MAX_LINE_BYTES + 1 bytes through
ReadLineOffByOne(s, raw) ==
    /\ s \in DOMAIN clients
    /\ IF RawLen(raw) > READER_LIMIT + 1
       THEN Leave(s, "error")
       ELSE IF RawLen(raw) > MAX_LINE_BYTES + 1
       THEN Leave(s, "oversize")
       ELSE IF RStripCRLF(raw) = <<>>
       THEN Blank(s)
       ELSE Dispatch(s, RStripCRLF(raw))

\* one turn of the read loop on the raw line readline() found: readline()
\* raises when the line end lies beyond the reader's limit
ReadLine(s, raw) ==
    /\ s \in DOMAIN clients
    /\ IF RawLen(raw) > READER_LIMIT + 1
       THEN Leave(s, "error")
       ELSE IF RawLen(raw) > MAX_LINE_BYTES
       THEN Leave(s, "oversize")
       ELSE IF RStripCRLF(raw) = <<>>
       THEN Blank(s)
       ELSE Dispatch(s, RStripCRLF(raw))

LineConfig ==
    [max_clients |-> 2, rate |-> 1, burst |-> 1, strikes |-> 2,
     history_size |-> 1, nick_reserve_secs |-> 0, admin_password |-> <<>>,
     motd |-> <<>>, ban_file |-> FALSE]

\* N a, 3 bytes
LineNick == RawLine(<<"N", "a">>, 0)
\* M h, 1024 bytes
Line1024 == RawLine(<<"M", "h">>, MAX_LINE_BYTES - 3)
\* M i, 1025 bytes
Line1025 == RawLine(<<"M", "i">>, MAX_LINE_BYTES - 2)
\* N a, 1025 bytes
LineNick1025 == RawLine(<<"N", "a">>, MAX_LINE_BYTES - 2)
\* M j, beyond the reader's limit
LineBeyond == RawLine(<<"M", "j">>, READER_LIMIT)
\* CR LF
LineEmpty == RawLine(<<>>, 1)

RawLines == {LineNick, Line1024, Line1025, LineNick1025, LineBeyond, LineEmpty}

InitLine == Start(LineConfig)

NextLine ==
    \/ ConnectAccept(IP1, MaxConn)
    \/ \E s \in DOMAIN clients, raw \in RawLines : ReadLine(s, raw)
    \/ Tick(MaxTime)

SpecLine == InitLine /\ [][NextLine]_vars

(***************************************************************************)
(* Nick resolution on its own: three sessions from two addresses, names    *)
(* that stay reserved, and names that collide, among them a name of 19     *)
(* characters whose first suffixed candidate is the name itself.           *)
(***************************************************************************)
ResolveConfig == [NickConfig EXCEPT !.max_clients = 3]

\* seventeen a's, then _1
Edge19 == [i \in 1..NICK_TRUNC |-> "a"] \o <<"_", "1">>

ResolveInputs == {<<"a", "!">>, Edge19}

InitResolve == Start(ResolveConfig)

NextResolve ==
    \/ \E ip \in IPs : ConnectAccept(ip, MaxConn)
    \/ \E s \in DOMAIN clients, x \in ResolveInputs : Nick(s, x)
    \/ \E s \in DOMAIN clients : Leave(s, "eof")

SpecResolve == InitResolve /\ [][NextResolve]_vars

(***************************************************************************)
(* Transports: two sessions that register, talk and leave while their      *)
(* peers stop and resume reading and the write deadline goes by.           *)
(***************************************************************************)
WireConfig ==
    [max_clients |-> 2, rate |-> 1, burst |-> 1, strikes |-> 3,
     history_size |-> 1, nick_reserve_secs |-> 0, admin_password |-> <<>>,
     motd |-> << <<"h", "i">> >>, ban_file |-> FALSE]

InitWire == Start(WireConfig)

NextWire ==
    \/ ConnectAccept(IP1, WireConn)
    \/ \E s \in DOMAIN clients : Nick(s, <<"a", "!">>)
    \/ \E s \in DOMAIN clients : Message(s, <<"h", "\t">>)
    \/ \E s \in DOMAIN clients : PeerStalls(s)
    \/ \E s \in DOMAIN clients : PeerResumes(s)
    \/ \E s \in DOMAIN clients : DrainTimeout(s)
    \/ \E s \in DOMAIN clients : Leave(s, "eof")
    \/ Sleep(WireTime)

SpecWire == InitWire /\ [][NextWire]_vars

(***************************************************************************)
(* Properties.                                                             *)
(***************************************************************************)
\* the step is the dispatch of an N line
NickStep == ev'.op = "N" /\ ev'.cid \in DOMAIN clients

\* C1: every entry nick -> id of the active-nick map refers to a session
\* that is in the id map, is confirmed and has exactly that nickname.
C1_NickMapSound ==
    \A n \in DOMAIN nicks :
        /\ nicks[n] \in DOMAIN clients
        /\ clients[nicks[n]].nick_confirmed
        /\ clients[nicks[n]].nick = n

\* two sessions hold nicknames, and one of them has just renamed itself
C1_Witness ==
    /\ Cardinality(DOMAIN nicks) = 2
    /\ ev.op = "N" /\ ev.how = "rename"
    /\ reserved # EmptyMap

\* C2: no nickname is a key of the active-nick map and of the reserved-nick
\* map at once.
C2_ActiveReservedDisjoint == (DOMAIN nicks) \cap (DOMAIN reserved) = {}

\* C3: the nickname that resolution returns for an N line is held in the
\* active-nick map by no session but the sender, and is not the key of an
\* unexpired reservation of another address; when the requested name is
\* held by another session the answer is that name with a suffix _k.
C3_ResolvedNickFree ==
    [][NickStep =>
        LET s == ev'.cid
            n == ev'.nick
            base == Clean(ev'.arg)
        IN  /\ n \in DOMAIN nicks => nicks[n] = s
            /\ (n \in DOMAIN reserved /\ now < reserved[n].expiry)
                   => reserved[n].ip = clients[s].ip
            /\ (base \in DOMAIN nicks /\ nicks[base] # s)
                   => /\ n # base
                      /\ \E k \in 1..(Cardinality(DOMAIN nicks)
                                      + Cardinality(DOMAIN reserved)) :
                             n = Suffixed(base, k)]_vars

\* a session asked for "a", which another session holds, and got "a_1"
C3_Witness ==
    /\ ev.op = "N" /\ Clean(ev.arg) = NickA /\ ev.nick = NickA1
    /\ NickA \in DOMAIN nicks /\ nicks[NickA] # ev.cid

\* C4: the nickname that resolution returns consists of characters of
\* [A-Za-z0-9_-] only and is 1 to 20 characters long.
C4_NickWellFormed ==
    ev.op = "N" =>
        /\ Len(ev.nick) \in 1..NICK_MAX
        /\ \A i \in 1..Len(ev.nick) : ev.nick[i] \in NickChars

\* C5: while a reservation n -> (a, expiry) stands: before its expiry an N
\* request for n from another address is answered with a suffixed name and
\* one from address a with n itself; from its expiry on, a request for n
\* from any address is answered with n and the lookup removes the entry.
C5_ReservationHonoured ==
    [][NickStep =>
        LET s == ev'.cid
            n == Clean(ev'.arg)
        IN  n \in DOMAIN reserved =>
                IF now < reserved[n].expiry
                THEN IF clients[s].ip # reserved[n].ip
                     THEN ev'.nick # n /\ \E k \in 1..MaxConn : ev'.nick = Suffixed(n, k)
                     ELSE ev'.nick = n
                ELSE ev'.nick = n /\ n \notin DOMAIN reserved']_vars

\* C6: an N line that repeats the N line the same session sent in the
\* operation before queues no line to anyone and leaves the id map, the nick
\* map and the reservation map (so the session's nick too) as they were.
C6_RepeatedNickNoop ==
    [][(NickStep /\ ev'.again) =>
        /\ clients' = clients
        /\ nicks' = nicks
        /\ reserved' = reserved
        /\ sent' = NoOutput]_vars

\* the repeated request was for a name another session holds: the first N
\* was answered with a suffixed nickname
C6_Witness ==
    /\ ev.op = "N" /\ ev.again
    /\ ev.nick # Clean(ev.arg)
    /\ clients[ev.cid].nick = ev.nick

\* the lines queued to c in the step
SentNext(c) == IF c \in DOMAIN sent' THEN sent'[c] ELSE <<>>

BroadcastPrefixes == {"J", "L", "N", "M", "T"}

\* C7: on a session's first N the lines queued to it are, in this order,
\* Y<nick>, one J<peer.nick> <peer.ip> per other confirmed session, the
\* history in insertion order and one S<line> per non-empty MOTD line; the
\* J<nick> <ip> of the newcomer is queued to every other confirmed session
\* and to nobody else.
C7_JoinBurstOrder ==
    [][(NickStep /\ ~clients[ev'.cid].nick_confirmed) =>
        LET s == ev'.cid
            me == SentNext(s)
            peers == {c \in DOMAIN clients \ {s} : clients[c].nick_confirmed}
            np == Cardinality(peers)
            nh == Len(history)
            tail == SubSeq(me, 2 + np + nh, Len(me))
            lines == SelectSeq([i \in 1..Len(motd) |-> Strip(motd[i])],
                               LAMBDA l : l # <<>>)
            joined == <<"J", clients'[s].nick, clients[s].ip>>
            out == OnNick(s, ev'.arg, clients, nicks, reserved, history, motd,
                          now).out
        IN  /\ sent' = Queued(out)
            /\ \A i, j \in 1..Len(out) :
                   (out[i].to = s /\ out[j].to # s) => i < j
            /\ Len(me) >= 1 + np + nh
            /\ me[1] = <<"Y", clients'[s].nick>>
            /\ \A c \in peers :
                   \E i \in 2..(1 + np) :
                       me[i] = <<"J", clients[c].nick, clients[c].ip>>
            /\ \A i \in 1..nh : me[1 + np + i] = history[i]
            /\ Len(tail) = Len(lines)
            /\ \A i \in 1..Len(tail) : tail[i] = <<"S", "", lines[i]>>
            /\ \A c \in peers : SentNext(c) = <<joined>>
            /\ \A c \in (DOMAIN sent') \ (peers \cup {s}) : sent'[c] = <<>>]_vars

\* a newcomer was sent Y, two peers, two history lines and the two
\* non-empty lines of a three-line MOTD
C7_Witness ==
    /\ ev.op = "N" /\ ev.how = "first"
    /\ Len(history) = 2
    /\ Cardinality({c \in DOMAIN clients : clients[c].nick_confirmed}) = 3
    /\ Len(sent[ev.cid]) = 7

\* C8: no broadcast line (J, L, N, M, T) is ever queued to a session whose
\* nick_confirmed flag is false, and the J of a first registration is not
\* queued to the session that registered.
C8_BroadcastOnlyToConfirmed ==
    /\ \A c \in DOMAIN sent :
           (c \in DOMAIN clients /\ ~clients[c].nick_confirmed) =>
               \A i \in 1..Len(sent[c]) : sent[c][i][1] \notin BroadcastPrefixes
    /\ (ev.op = "N" /\ ev.how = "first") =>
           \A i \in 1..Len(sent[ev.cid]) :
               sent[ev.cid][i] # <<"J", ev.nick, clients[ev.cid].ip>>

\* a chat line was broadcast while a session was connected and unconfirmed
C8_Witness ==
    /\ \E u \in DOMAIN clients : ~clients[u].nick_confirmed
    /\ \E c \in DOMAIN sent : \E i \in 1..Len(sent[c]) : sent[c][i][1] = "M"
    /\ Cardinality(DOMAIN sent) = 2

\* C9: a line that an unconfirmed session sends and whose prefix is not N
\* or L leaves the id map (so every status, token bucket and strikes
\* counter), the nick map, the reservation map, the history, the banned
\* set, the MOTD and the counters unchanged and queues no line to anyone.
C9_GatedLineNoEffect ==
    [][(/\ ev'.cid \in DOMAIN clients
        /\ ~clients[ev'.cid].nick_confirmed
        /\ ev'.op \notin {"N", "L", "eof"}) =>
            /\ UNCHANGED <<clients, nicks, reserved, history, banned_ips, motd,
                           metrics, ban_disk>>
            /\ sent' = NoOutput]_vars

\* an unconfirmed session's M line was dropped while a confirmed session
\* was there to receive it
C9_Witness ==
    /\ ev.op = "drop" /\ ev.how = "gated" /\ ev.arg = <<"M">>
    /\ ~clients[ev.cid].nick_confirmed
    /\ \E c \in DOMAIN clients : clients[c].nick_confirmed

FloodNotice == SLine("You have been disconnected for flooding.", <<>>)

\* C10: a confirmed session is closed for flooding exactly when the bucket
\* rejects a command of prefix M, C, W or T and the rejection raises its
\* strikes to the limit; then the flood notice is queued to it, the command
\* changes nothing else and the cleanup of a leave runs (out of both maps,
\* reservation installed, L to the other confirmed sessions); a rejection
\* below the limit adds a strike, queues nothing and keeps the session; an
\* accepted command takes one token and clears the strikes.  With burst 10,
\* limit 3 and the clock at its start, a session holds 0 to 10 tokens and
\* less than 3 strikes, and has strikes only with no token left: the first
\* 10 commands are accepted and the third rejection in a row closes it.
C10_FloodClose ==
    /\ []((cfg.burst = 10 /\ cfg.strikes = 3 /\ now = 0) =>
            \A s \in DOMAIN clients :
                /\ clients[s].tokens \in 0..(10 * TicksPerSec)
                /\ clients[s].strikes \in 0..2
                /\ clients[s].strikes > 0 => clients[s].tokens = 0)
    /\ [][(/\ ev'.op \in Limited
           /\ ev'.cid \in DOMAIN clients
           /\ clients[ev'.cid].nick_confirmed) =>
            LET s == ev'.cid
                c == clients[s]
                level == Min(cfg.burst * TicksPerSec,
                             c.tokens + (now - c.last) * cfg.rate)
                rejected == level < TicksPerSec
                closing == rejected /\ c.strikes + 1 >= cfg.strikes
                others == {o \in DOMAIN clients \ {s} :
                               clients[o].nick_confirmed}
            IN  /\ (s \notin DOMAIN clients') <=> closing
                /\ closing =>
                       /\ SentNext(s) = <<FloodNotice>>
                       /\ \A o \in others : SentNext(o) = << <<"L", c.nick>> >>
                       /\ clients' = Drop(clients, s)
                       /\ nicks' = Drop(nicks, c.nick)
                       /\ reserved' =
                              IF cfg.nick_reserve_secs > 0
                              THEN Put(reserved, c.nick,
                                       [ip |-> c.ip,
                                        expiry |-> now + cfg.nick_reserve_secs
                                                         * TicksPerSec])
                              ELSE reserved
                       /\ UNCHANGED <<history, banned_ips, motd, metrics>>
                /\ (rejected /\ ~closing) =>
                       /\ clients' = [clients EXCEPT ![s].strikes = @ + 1,
                                                     ![s].tokens = level,
                                                     ![s].last = now]
                       /\ sent' = NoOutput
                       /\ UNCHANGED <<nicks, reserved, history, banned_ips,
                                      motd, metrics>>
                /\ ~rejected =>
                       /\ clients'[s].tokens = level - TicksPerSec
                       /\ clients'[s].strikes = 0]_vars

\* with the clock at its start a session was closed for flooding and the
\* other session was told that it left
C10_Witness ==
    /\ ev.how = "flood" /\ now = 0
    /\ cfg.burst = 10 /\ cfg.strikes = 3
    /\ ev.cid \notin DOMAIN clients
    /\ sent[ev.cid] = <<FloodNotice>>
    /\ \E o \in DOMAIN clients : o \in DOMAIN sent /\ Len(sent[o]) = 1
                                 /\ sent[o][1][1] = "L"

\* the tokens of client record c after the refill of a consume() at time t
Refilled(c, t) ==
    Min(cfg.burst * TicksPerSec, c.tokens + (t - c.last) * cfg.rate)

\* C11: when a command of prefix M, C, W or T of a confirmed session passes
\* the token bucket, the session's strikes are zero right after it, whatever
\* they were; an N or an A line leaves the sender's strikes as they were.
C11_StrikesReset ==
    [][(ev'.cid \in DOMAIN clients /\ ev'.cid \in DOMAIN clients') =>
        LET s == ev'.cid
        IN  /\ (/\ ev'.op \in Limited
                /\ clients[s].nick_confirmed
                /\ Refilled(clients[s], now) >= TicksPerSec)
                   => clients'[s].strikes = 0
            /\ ev'.op \in {"N", "A"}
                   => clients'[s].strikes = clients[s].strikes]_vars

\* a session that the bucket has struck twice sent an A line and still has
\* its two strikes
C11_Witness ==
    /\ ev.op = "A"
    /\ ev.cid \in DOMAIN clients
    /\ clients[ev.cid].nick_confirmed
    /\ clients[ev.cid].strikes = 2

\* C12: the token count of a bucket stays within 0..burst; a call of
\* consume() is admitted exactly when the refilled count is at least one
\* token, and then costs exactly one token, while a rejected call costs
\* none; so the calls admitted up to time t are at most burst + rate * t,
\* and at most burst while no time has elapsed.
C12_BucketBounds ==
    /\ [](\A s \in DOMAIN clients :
              clients[s].tokens \in 0..(cfg.burst * TicksPerSec))
    /\ [](metrics.connections_total <= 1 =>
              /\ metrics.messages_total * TicksPerSec
                     <= cfg.burst * TicksPerSec + cfg.rate * now
              /\ now = 0 => metrics.messages_total <= cfg.burst)
    /\ [][(/\ ev'.op = "M"
           /\ ev'.cid \in DOMAIN clients
           /\ ev'.cid \in DOMAIN clients') =>
            LET s == ev'.cid
                level == Refilled(clients[s], now)
            IN  /\ clients'[s].last = now
                /\ IF level >= TicksPerSec
                   THEN /\ ev'.how = "said"
                        /\ clients'[s].tokens = level - TicksPerSec
                   ELSE /\ ev'.how = "strike"
                        /\ clients'[s].tokens = level]_vars

\* after the burst was spent at the start and one second passed, a second
\* call was admitted, and the call after it was rejected
C12_Witness ==
    /\ cfg = BucketConfig
    /\ metrics.messages_total = 2 /\ now = 1
    /\ ev.op = "M" /\ ev.how = "strike"
    /\ clients[ev.cid].tokens = 0

\* the last n entries of sequence h
LastN(h, n) == IF Len(h) > n THEN SubSeq(h, Len(h) - n + 1, Len(h)) ELSE h

\* C13: the history never holds more than history_size entries; an accepted
\* M line with a non-empty text appends the line that is broadcast and
\* evicts from the head, so the history is the most recent such lines in
\* broadcast order; every other step (rename, leave, status change, admin
\* command, rejected or empty M) leaves the history as it was.
C13_HistoryBounded ==
    /\ [](Len(history) <= cfg.history_size)
    /\ [][IF ev'.op = "M" /\ ev'.how = "said"
          THEN LET s == ev'.cid
                   line == SentNext(s)[1]
               IN  /\ line[1] = "M" /\ line[2] = clients[s].nick
                   /\ line[3] # <<>>
                   /\ history' = LastN(Append(history, line), cfg.history_size)
          ELSE history' = history]_vars

\* the third message evicted the first from a history of size two, and the
\* two entries left are of different senders
C13_Witness ==
    /\ ev.op = "M" /\ ev.how = "said"
    /\ metrics.messages_total = 3
    /\ Len(history) = 2 /\ cfg.history_size = 2
    /\ history[1][2] # history[2][2]

\* C14: when a confirmed session j sets status queue while a confirmed
\* session p is queued, then in that step j is queued C<p.nick> and p is
\* queued C<j.nick>, both statuses become chat, T<j.nick> chat and
\* T<p.nick> chat go to every confirmed session, j and p are each queued
\* SMatchmaking: paired with <other>!, each of the two has its C line before
\* the two T ... chat lines and these before its S line, the challenge
\* counter rises by one and no third session changes; with nobody queued, j
\* stays in status queue and only T<j.nick> queue is sent.
C14_Matchmaking ==
    [][(/\ ev'.op = "T"
        /\ ev'.cid \in DOMAIN clients'
        /\ clients[ev'.cid].nick_confirmed
        /\ SentNext(ev'.cid) # <<>>
        /\ SentNext(ev'.cid)[1] = <<"T", clients[ev'.cid].nick, QUEUE>>) =>
        LET j == ev'.cid
            jn == clients[j].nick
            first == <<"T", jn, QUEUE>>
            waiting == {p \in DOMAIN clients \ {j} :
                            clients[p].nick_confirmed /\ clients[p].status = QUEUE}
        IN  IF waiting = {}
            THEN /\ clients'[j].status = QUEUE
                 /\ \A o \in DOMAIN clients :
                        /\ o # j => clients'[o] = clients[o]
                        /\ SentNext(o) = IF clients[o].nick_confirmed
                                         THEN <<first>> ELSE <<>>
                 /\ metrics' = metrics
            ELSE \E p \in waiting :
                     LET pn == clients[p].nick
                         tj == <<"T", jn, CHAT>>
                         tp == <<"T", pn, CHAT>>
                     IN  /\ SentNext(j) =
                                <<first, <<"C", pn>>, tj, tp,
                                  SLine("Matchmaking: paired with ", pn)>>
                         /\ SentNext(p) =
                                <<first, <<"C", jn>>, tj, tp,
                                  SLine("Matchmaking: paired with ", jn)>>
                         /\ clients'[j].status = CHAT
                         /\ clients'[p].status = CHAT
                         /\ \A o \in DOMAIN clients \ {j, p} :
                                /\ clients'[o] = clients[o]
                                /\ SentNext(o) = IF clients[o].nick_confirmed
                                                 THEN <<first, tj, tp>> ELSE <<>>
                         /\ metrics' = [metrics EXCEPT !.challenges_total = @ + 1]]_vars

\* two queued sessions were paired while a third confirmed session watched
C14_Witness ==
    /\ ev.op = "T" /\ ev.how = "paired"
    /\ Cardinality({c \in DOMAIN clients : clients[c].nick_confirmed}) = 3
    /\ \A c \in DOMAIN clients : clients[c].status = CHAT
    /\ \E o \in DOMAIN sent : Len(sent[o]) = 3

\* C15: when a session's read loop ends (EOF, L, idle timeout, oversized
\* line, flood, transport error) the session leaves the id map; if it was
\* confirmed its nickname leaves the nick map, the reservation nick ->
\* (its ip, now + nick_reserve_secs) is installed exactly when the grace
\* period is positive and L<nick> is queued to every confirmed session that
\* remains; if it was unconfirmed no reservation is installed and nothing is
\* broadcast.
C15_LeaveCleanup ==
    [][(ev'.op \in LeaveReasons \cup {"M"}
        /\ ev'.how \in {"left", "flood"}
        /\ ev'.cid \in DOMAIN clients) =>
        LET s == ev'.cid
            c == clients[s]
        IN  /\ clients' = Drop(clients, s)
            /\ IF c.nick_confirmed
               THEN /\ nicks' = Drop(nicks, c.nick)
                    /\ reserved' =
                           IF cfg.nick_reserve_secs > 0
                           THEN Put(reserved, c.nick,
                                    [ip |-> c.ip,
                                     expiry |-> now + cfg.nick_reserve_secs
                                                      * TicksPerSec])
                           ELSE reserved
                    /\ \A o \in DOMAIN clients' :
                           SentNext(o) = IF clients[o].nick_confirmed
                                         THEN << <<"L", c.nick>> >> ELSE <<>>
               ELSE /\ nicks' = nicks
                    /\ reserved' = reserved
                    /\ \A o \in DOMAIN clients' : SentNext(o) = <<>>]_vars

\* with no grace period a confirmed session timed out: the remaining
\* confirmed session was told, and nothing is reserved
C15_Witness ==
    /\ ev.op = "timeout" /\ ev.how = "left"
    /\ cfg.nick_reserve_secs = 0 /\ reserved = EmptyMap
    /\ \E o \in DOMAIN clients :
           /\ clients[o].nick_confirmed
           /\ o \in DOMAIN sent /\ Len(sent[o]) = 1 /\ sent[o][1][1] = "L"
    /\ \E u \in DOMAIN clients : ~clients[u].nick_confirmed

\* C16: a connection attempt from an address in the banned set is queued
\* SYou are banned from this server. and nothing else happens: no entry of
\* the id map or the nick map is created and connections_total does not
\* move; an id enters the id map only by a connection from an address that
\* is not banned, ids are never reused, and only sessions of the id map
\* have lines dispatched, so no line of the rejected attempt is dispatched.
C16_BannedRejected ==
    [][/\ (ev'.op = "connect" /\ ev'.arg \in banned_ips) =>
              /\ SentNext(ev'.cid) =
                     <<SLine("You are banned from this server.", <<>>)>>
              /\ ev'.cid \notin DOMAIN clients'
              /\ UNCHANGED <<clients, nicks, reserved, metrics, banned_ips>>
       /\ \A s \in (DOMAIN clients') \ (DOMAIN clients) :
              /\ ev'.op = "connect" /\ ev'.cid = s
              /\ ev'.arg \notin banned_ips
       /\ ev'.op = "connect" =>
              /\ ev'.cid = next_id + 1 /\ next_id' = next_id + 1
              /\ \A s \in DOMAIN clients : s <= next_id
       /\ ev'.op \in {"N", "M", "C", "W", "T", "A", "drop"} =>
              ev'.cid \in DOMAIN clients]_vars

\* an attempt from a banned address was turned away while a session was
\* connected: one connection counted, one session in the id map
C16_Witness ==
    /\ ev.op = "connect" /\ ev.arg \in banned_ips
    /\ metrics.connections_total = 1 /\ next_id = 2
    /\ DOMAIN clients = {1}
    /\ sent[2] = <<SLine("You are banned from this server.", <<>>)>>

\* C17: once an admin ban with the right password has answered
\* SBanned <ip>., every later connection attempt from that address is
\* rejected as banned, whatever follows (admin reload, SIGHUP, a failed
\* append to the ban file): the answered address is in the banned set, no
\* step takes an address out of the banned set, and an attempt from an
\* address of the banned set is rejected.
C17_BanPersists ==
    [][/\ (ev'.op = "A" /\ ev'.cid \in DOMAIN clients) =>
              \A i \in 1..Len(SentNext(ev'.cid)) :
                  LET line == SentNext(ev'.cid)[i]
                  IN  (line[1] = "S" /\ line[2] = "Banned ")
                          => line[3] \in banned_ips'
       /\ banned_ips \subseteq banned_ips'
       /\ (ev'.op = "connect" /\ ev'.arg \in banned_ips) =>
              /\ ev'.cid \notin DOMAIN clients'
              /\ SentNext(ev'.cid) =
                     <<SLine("You are banned from this server.", <<>>)>>]_vars

\* C18: an admin kick of a live nickname n, alone or as part of a ban by
\* nickname, queues SYou have been kicked by an administrator. to the
\* target, raises kicks_total by exactly one, answers the admin
\* SKicked <n>. and closes the target's transport; under fair scheduling a
\* session whose transport was closed eventually leaves the registry with
\* no line of its own needed, and the step on which it leaves removes its
\* id-map and nick-map entries and queues L<n> to every confirmed session
\* that remains.
KickLine == SLine("You have been kicked by an administrator.", <<>>)

C18_KickedLeaves ==
    /\ [][\A n \in DOMAIN nicks :
              (/\ ev'.op = "A"
               /\ cfg.admin_password = SECRET
               /\ ev'.arg \in {Words(SECRET, KICK, n), Words(SECRET, BAN, n)}) =>
                  LET t == nicks[n]
                      a == ev'.cid
                  IN  /\ SentNext(t)[1] = KickLine
                      /\ t # a => SentNext(t) = <<KickLine>>
                      /\ SentNext(a)[IF t = a THEN 2 ELSE 1] = SLine("Kicked ", n)
                      /\ metrics'.kicks_total = metrics.kicks_total + 1
                      /\ clients'[t].closed
                      /\ DOMAIN clients' = DOMAIN clients
                      /\ nicks' = nicks]_vars
    /\ \A t \in 1..MaxConn :
           (t \in DOMAIN clients /\ clients[t].closed)
               ~> (t \notin DOMAIN clients)
    /\ [][\A t \in DOMAIN clients :
              (clients[t].closed /\ t \notin DOMAIN clients') =>
                  /\ clients[t].nick_confirmed
                  /\ nicks' = Drop(nicks, clients[t].nick)
                  /\ clients' = Drop(clients, t)
                  /\ \A o \in DOMAIN clients' :
                         SentNext(o) = IF clients[o].nick_confirmed
                                       THEN << <<"L", clients[t].nick>> >>
                                       ELSE <<>>]_vars

\* the kicked session a has just left: the confirmed admin that had kicked
\* it was told L a, the kick was counted, and the name is free again
C18_Witness ==
    /\ ev.op = "eof"
    /\ metrics.kicks_total = 1
    /\ NickA \notin DOMAIN nicks
    /\ \E o \in DOMAIN clients :
           /\ clients[o].nick_confirmed /\ ~clients[o].closed
           /\ o \in DOMAIN sent /\ sent[o] = << <<"L", NickA>> >>

\* an A line is refused when no password is configured or when its first
\* field is not the configured password
Refused(content) ==
    \/ cfg.admin_password = <<>>
    \/ Split2(content)[1] # cfg.admin_password

\* a refused A line changes nothing but the requester's outgoing queue
RefusedFrame ==
    /\ UNCHANGED <<clients, nicks, reserved, banned_ips, motd, history,
                   metrics, ban_disk>>
    /\ ev'.cid \in DOMAIN clients'
    /\ \A o \in DOMAIN clients' : o # ev'.cid => SentNext(o) = <<>>

\* C19 as stated: a refused A line changes nothing in the id map, nick map,
\* reservation map, banned set, MOTD, history, counters or transports,
\* leaves the requester's session open, and queues to the requester exactly
\* one S line, which is SAdmin commands are disabled on this server. or
\* SInvalid admin password.
C19_RefusedAsStated ==
    [][(ev'.op = "A" /\ Refused(ev'.arg)) =>
           /\ RefusedFrame
           /\ SentNext(ev'.cid) \in
                  {<<SLine("Admin commands are disabled on this server.", <<>>)>>,
                   <<SLine("Invalid admin password.", <<>>)>>}]_vars

\* C19: a refused A line changes nothing in the id map, nick map,
\* reservation map, banned set, MOTD, history, counters or transports,
\* leaves the requester's session open, and queues to the requester exactly
\* one S line: SAdmin commands are disabled on this server. when no
\* password is configured; otherwise the usage line when the line has
\* fewer than two fields, and SInvalid admin password. when it has two or
\* more.
C19_RefusedAdmin ==
    [][(ev'.op = "A" /\ Refused(ev'.arg)) =>
           /\ RefusedFrame
           /\ SentNext(ev'.cid) =
                  << IF cfg.admin_password = <<>>
                     THEN SLine("Admin commands are disabled on this server.", <<>>)
                     ELSE IF Len(Split2(ev'.arg)) < 2
                     THEN SLine("Usage: A<password> <kick|ban|reload|motd> [args]", <<>>)
                     ELSE SLine("Invalid admin password.", <<>>) >>]_vars

\* a kick of the live session a under a wrong password was refused: a is
\* still registered with its transport open and nothing was counted
C19_Witness ==
    /\ ev.op = "A" /\ ev.arg = Words(WRONG, KICK, NickA)
    /\ cfg.admin_password = SECRET
    /\ NickA \in DOMAIN nicks /\ ~clients[nicks[NickA]].closed
    /\ nicks[NickA] # ev.cid
    /\ metrics.kicks_total = 0
    /\ sent[ev.cid] = <<SLine("Invalid admin password.", <<>>)>>

\* C20: a T line of a confirmed session that passes the token bucket and
\* whose trimmed, lowercased value is not one of chat, away, game, queue
\* queues exactly one S error line to the requester and nothing to anybody
\* else, leaves every session's status unchanged, triggers no matchmaking
\* (no C line, no challenge counted) and leaves the requester registered
\* with its transport open.
C20_InvalidStatus ==
    [][(/\ ev'.op = "T" /\ ev'.cid \in DOMAIN clients
        /\ clients[ev'.cid].nick_confirmed
        /\ Refilled(clients[ev'.cid], now) >= TicksPerSec
        /\ Lower(Strip(ev'.arg)) \notin VALID_STATUSES) =>
           LET s == ev'.cid
           IN  /\ SentNext(s) =
                      <<SLine("Invalid status. Choose: away, chat, game, queue",
                              <<>>)>>
               /\ \A o \in DOMAIN clients' : o # s => SentNext(o) = <<>>
               /\ DOMAIN clients' = DOMAIN clients
               /\ \A o \in DOMAIN clients :
                      /\ clients'[o].status = clients[o].status
                      /\ clients'[o].closed = clients[o].closed
               /\ s \in DOMAIN clients' /\ ~clients'[s].closed
               /\ UNCHANGED <<nicks, reserved, history, metrics>>]_vars

\* a session sent T x while another confirmed session was waiting in the
\* queue: it was told the value is invalid, and the other one still waits
C20_Witness ==
    /\ ev.op = "T" /\ ev.arg = <<"x">>
    /\ ev.cid \in DOMAIN clients /\ clients[ev.cid].status = CHAT
    /\ \E o \in DOMAIN clients :
           /\ o # ev.cid /\ clients[o].nick_confirmed
           /\ clients[o].status = QUEUE
           /\ o \notin DOMAIN sent
    /\ metrics.challenges_total = 0
    /\ sent[ev.cid] =
           <<SLine("Invalid status. Choose: away, chat, game, queue", <<>>)>>

\* C21: a received line of at most 1024 bytes, line end included, is
\* dispatched as the line without its line end is; a line of 1025 bytes or
\* more reaches no handler (no history, counter, bucket or strike moves),
\* queues nothing to its sender, and ends the sender's read loop with the
\* leave cleanup: the session leaves the id map and, if it was confirmed,
\* its nickname leaves the nick map and L<nick> goes to the confirmed
\* sessions that remain.
C21_LineLength ==
    [][\A s \in DOMAIN clients, raw \in RawLines :
           ReadLine(s, raw) =>
               IF RawLen(raw) <= 1024
               THEN IF raw.body = <<>>
                    THEN UNCHANGED <<clients, nicks, reserved, history, metrics>>
                         /\ sent' = NoOutput
                    ELSE Dispatch(s, raw.body)
               ELSE LET c == clients[s]
                    IN  /\ ev'.op \in {"oversize", "error"} /\ ev'.cid = s
                        /\ clients' = Drop(clients, s)
                        /\ SentNext(s) = <<>>
                        /\ UNCHANGED <<history, metrics, banned_ips, motd>>
                        /\ nicks' = IF c.nick_confirmed THEN Drop(nicks, c.nick)
                                    ELSE nicks
                        /\ \A o \in DOMAIN clients' :
                               SentNext(o) =
                                   IF c.nick_confirmed /\ clients[o].nick_confirmed
                                   THEN << <<"L", c.nick>> >> ELSE <<>>]_vars

\* the message h, which only the 1024-byte line carries, is in the history,
\* and a confirmed session has just been dropped for a 1025-byte line, of
\* which the other confirmed session was told
C21_Witness ==
    /\ ev.op = "oversize"
    /\ Len(history) = 1 /\ history[1][3] = <<"h">>
    /\ metrics.messages_total = 1
    /\ \E o \in DOMAIN clients :
           /\ clients[o].nick_confirmed
           /\ o \in DOMAIN sent /\ Len(sent[o]) = 1 /\ sent[o][1][1] = "L"

C27_ResolveTerminates ==
    [][NickStep =>
        LET s == ev'.cid
            r == ResolveNick(ev'.arg, s, clients[s].ip, nicks, reserved, now)
        IN  /\ r.tried <= Cardinality(DOMAIN nicks)
                              + Cardinality(DOMAIN reserved) + 1
            /\ r.nick # <<>>
            /\ ev'.nick = r.nick
            /\ r.tried > 0 => r.nick = Suffixed(Clean(ev'.arg), r.tried)]_vars

\* one session holds the 19-character name; another asked for it and got
\* suffix 2 after two suffix steps, one more than the one nickname in use
C27_Witness ==
    /\ ev.op = "N" /\ ev.arg = Edge19
    /\ ev.nick = Suffixed(Edge19, 2)
    /\ Cardinality(DOMAIN nicks) = 2
    /\ reserved = EmptyMap

\* the confirmed sessions of the id map cl whose status is queue
Queued4Match(cl) ==
    {s \in DOMAIN cl : cl[s].nick_confirmed /\ cl[s].status = QUEUE}

\* C28: at most one confirmed session of the id map has status queue; a T
\* line that sets queue while another confirmed session is queued leaves
\* both at chat in the same step, before any other line is dispatched.
C28_OneQueued ==
    /\ [](Cardinality(Queued4Match(clients)) <= 1)
    /\ [][(/\ ev'.op = "T" /\ ev'.cid \in DOMAIN clients
           /\ clients[ev'.cid].nick_confirmed
           /\ Refilled(clients[ev'.cid], now) >= TicksPerSec
           /\ Lower(Strip(ev'.arg)) = QUEUE) =>
              LET j == ev'.cid
                  waiting == Queued4Match(clients) \ {j}
              IN  IF waiting = {}
                  THEN Queued4Match(clients') = {j}
                  ELSE /\ Queued4Match(clients') = {}
                       /\ clients'[j].status = CHAT
                       /\ \A o \in waiting : clients'[o].status = CHAT]_vars

\* a second session has just asked for the queue and was paired: nobody
\* is queued any more, and one session never asked
C28_Witness ==
    /\ ev.op = "T" /\ ev.arg = <<" ", "Q", "u", "e", "u", "e">>
    /\ metrics.challenges_total = 1
    /\ Queued4Match(clients) = {}
    /\ Cardinality({s \in DOMAIN clients : clients[s].nick_confirmed}) = 3
    /\ ev.cid \in DOMAIN sent /\ sent[ev.cid][2][1] = "C"

\* C29: the id map never holds more than max_clients sessions; a
\* connection from an address that is not banned, taken while the id map
\* holds max_clients sessions, is queued SServer is full. Try again later.,
\* never enters the id map and is not counted in connections_total; a
\* session enters the id map only while there is room.
FullLine == SLine("Server is full. Try again later.", <<>>)

C29_MaxClients ==
    /\ [](Cardinality(DOMAIN clients) <= cfg.max_clients)
    /\ [][(/\ ev'.op = "connect"
           /\ ev'.arg \notin banned_ips
           /\ Cardinality(DOMAIN clients) >= cfg.max_clients) =>
              /\ SentNext(ev'.cid) = <<FullLine>>
              /\ \A o \in DOMAIN clients : SentNext(o) = <<>>
              /\ ev'.cid \notin DOMAIN clients'
              /\ ev'.cid \notin DOMAIN clients
              /\ UNCHANGED <<clients, nicks, reserved, metrics>>]_vars
    /\ [][\A s \in (DOMAIN clients') \ (DOMAIN clients) :
              /\ ev'.op = "connect" /\ ev'.cid = s
              /\ Cardinality(DOMAIN clients) < cfg.max_clients
              /\ metrics'.connections_total = metrics.connections_total + 1]_vars

\* the third connection found two sessions in the id map and was turned
\* away: two connections counted, two sessions registered
C29_Witness ==
    /\ ev.op = "connect" /\ ev.cid = 3
    /\ sent[3] = <<FullLine>>
    /\ Cardinality(DOMAIN clients) = cfg.max_clients
    /\ metrics.connections_total = 2
    /\ 3 \notin DOMAIN clients

\* C23: the lines two commands of one sender cause to a receiver reach the
\* receiver's outbound stream in the order of the commands, and whole.  A
\* command's lines are written while it is dispatched, in the order of the
\* handler; a transport that holds lines back takes the new lines of every
\* step behind the lines it already holds and hands them over oldest
\* first, all at once; a transport that holds nothing back passes the
\* lines on as they are written; and what a transport holds is whole lines.
LinePrefixes == {"Y", "J", "L", "N", "M", "C", "W", "T", "S"}

C24_WriteTimeoutCloses ==
    [][(ev'.op = "drain" /\ ev'.how = "timeout") =>
           /\ ev'.cid \in DOMAIN clients'
           /\ clients'[ev'.cid].closed]_vars

\* C26: in every reachable state every session of the id map has at most
\* one drain task that has not finished.
C26_OneDrainTask == \A s \in DOMAIN clients : DrainTasks(s) <= 1

\* C30: every snapshot() request is built successfully and returns the
\* confirmed players as they were at one instant.  Stated by two
\* consequences: the build never fails because the id map changed under
\* the iterator, and the players of a returned snapshot carry pairwise
\* different nicks (as the confirmed sessions of the registry do at every
\* instant).
C30_SnapshotAtOneInstant ==
    /\ http.phase # "failed"
    /\ http.phase = "done" =>
           \A i, j \in 1..Len(http.players) :
               http.players[i].nick = http.players[j].nick => i = j

\* C22: the number of confirmed sessions equals the number of keys of the
\* nick map, and the player count a snapshot reports is a number of
\* confirmed sessions the registry had; on a server that admits
\* max_clients sessions it is therefore never above max_clients.
C22_PlayerCount ==
    /\ Cardinality(Confirmed(clients)) = Cardinality(DOMAIN nicks)
    /\ http.phase = "done" => Len(http.players) <= cfg.max_clients

====
